---- MODULE Spec2Model ----
(***************************************************************************)
(* Retrieval handlers of the sales assistant (product, legal, GTM):        *)
(* request validation, moderation + embedding join, vector search,         *)
(* document-name boosting, keyword augmentation, merge, context packing,   *)
(* generation and streaming of the answer with the __SOURCES__ trailer.    *)
(* The upload handler: form parsing, splitting the content into sections,  *)
(* one embedding and one row per section; the delete handler and the       *)
(* cascading foreign key of the sections tables. The suggested-questions   *)
(* handlers, the embeddings script (checksum of a page and its sections)   *)
(* and the connection pool of lib/db.                                      *)
(*                                                                         *)
(* Similarities are integers in units of 1/10000 (0.85 = 8500), so that    *)
(* similarity * boost is exact for the two-decimal similarities drawn.     *)
(* A query is a sequence of words; the query string is the words joined    *)
(* by single spaces.                                                       *)
(***************************************************************************)
EXTENDS Integers, Sequences, FiniteSets, TLC

\* ------------------------------------------------------------------ bounds
MaxWords == 2
MaxStore == 2
MaxFill == 11
MaxChunks == 2
MaxParagraphs == 2
MaxDeletes == 1
MaxRuns == 2
MaxSections == 2
MaxDocuments == 2
MaxGenerated == 7
MaxCalls == 5

\* ------------------------------------------------------- program constants
One == 10000
KeywordSimilarity == 8500
KeywordLimit == 10
MinContentLength == 50
OverflowOfKeywordLimit == KeywordLimit
Overflow == 5

Domains == {"product", "legal", "gtm"}

MatchThreshold(d) == IF d = "product" THEN 7800 ELSE 7000
MatchCountUnbounded(d) == 100
MatchCount(d) == IF d = "product" THEN 10 ELSE 15
TokenBudget(d) == IF d = "product" THEN 1500 ELSE 2000

\* ------------------------------------------------------------ sequences
Range(s) == {s[i] : i \in DOMAIN s}

Min(a, b) == IF a <= b THEN a ELSE b

\* const x = v; ...: Body applied to the value of v, which is computed once
Bind(v, Body(_)) == CHOOSE r \in {Body(x) : x \in {v}} : TRUE

\* Array.prototype.slice(0, n)
Slice(s, n) == SubSeq(s, 1, Min(n, Len(s)))

\* Stable sort of s by ascending integer key (key[i] is the key of s[i]):
\* Array.prototype.sort with a comparator that is the difference of keys,
\* and ORDER BY on the rows of a table scan.
StableSortByKey(s, key) ==
  LET n == Len(s)
      before(i) == {j \in 1..n : key[j] < key[i] \/ (key[j] = key[i] /\ j < i)}
  IN [p \in 1..n |-> s[CHOOSE i \in 1..n : Cardinality(before(i)) + 1 = p]]

\* --------------------------------------------------------------- queries
Vocabulary == {"BSL", "BSL?", "subscription", "license"}

\* String.prototype.toLowerCase on the words of the vocabulary
ToLowerCase(w) ==
  CASE w = "BSL" -> "bsl"
    [] w = "BSL?" -> "bsl?"
    [] OTHER -> w

RECURSIVE SeqsUpTo(_, _)
SeqsUpTo(S, n) ==
  IF n = 0 THEN {<< >>}
  ELSE LET shorter == SeqsUpTo(S, n - 1)
       IN shorter \cup {Append(q, w) : q \in {r \in shorter : Len(r) = n - 1}, w \in S}

Queries == SeqsUpTo(Vocabulary, MaxWords)

\* (?:^|\s)(?:p1|p2|...)(?:\s|$) on the lower-cased query: some phrase of
\* phrases (a sequence of words) occurs as whole, whitespace-delimited words.
PhraseAt(ws, i, ph) ==
  /\ i + Len(ph) - 1 <= Len(ws)
  /\ \A k \in 1..Len(ph) : ToLowerCase(ws[i + k - 1]) = ph[k]

WordRegexTest(ws, phrases) ==
  \E i \in 1..Len(ws) : \E ph \in phrases : PhraseAt(ws, i, ph)

DocumentKeywords(ws) ==
  (IF WordRegexTest(ws, {<<"bsl">>, <<"business", "source", "license">>, <<"business", "source">>})
     THEN <<"bsl", "business source", "business source license">> ELSE << >>)
  \o (IF WordRegexTest(ws, {<<"subscription", "agreement">>, <<"subscription">>})
     THEN <<"subscription agreement", "subscription">> ELSE << >>)
  \o (IF WordRegexTest(ws, {<<"maxscale">>, <<"max", "scale">>})
     THEN <<"maxscale">> ELSE << >>)
  \o (IF WordRegexTest(ws, {<<"privacy", "policy">>, <<"privacy">>})
     THEN <<"privacy", "privacy policy">> ELSE << >>)
  \o (IF WordRegexTest(ws, {<<"terms", "of", "service">>, <<"terms", "and", "conditions">>, <<"terms">>})
     THEN <<"terms", "terms of service">> ELSE << >>)

\* The alternatives of an unanchored, case-insensitive regex that occur as a
\* substring of a word of the vocabulary.
Fragments(w) ==
  CASE w = "license" -> {"license"}
    [] w = "draft" -> {"draft"}
    [] w = "email" -> {"email"}
    [] OTHER -> {}

LicensingTerms ==
  {"license", "licensed", "unlicensed", "node", "server", "core", "vCPU", "violat",
   "complian", "over.?usage", "exceed", "community", "enterprise", "production",
   "environment", "use", "using"}

ReportingTerms ==
  {"obliged", "obligation", "must tell", "must notify", "must report", "required to tell",
   "required to notify", "required to report", "should tell", "should notify",
   "should report", "tell.*about", "notify.*about", "report.*about", "inform.*about",
   "disclose", "extra node", "additional node", "unlicensed node", "node.*not.*license"}

HowToInformTerms ==
  {"how.*inform", "how.*tell", "how.*communicate", "how.*email", "how.*discuss",
   "how.*advise", "how.*explain", "advise.*how", "suggest.*email", "email.*template",
   "how.*write"}

SubstringRegexTest(ws, terms) ==
  \E i \in 1..Len(ws) : Fragments(ws[i]) \cap terms # {}

IsLicensingQuery(ws) == SubstringRegexTest(ws, LicensingTerms)
IsReportingObligationQuery(ws) == SubstringRegexTest(ws, ReportingTerms)
IsHowToInformQuery(ws) == SubstringRegexTest(ws, HowToInformTerms)

\* a.*b(.*c): the fragments of span occur in this order, from word i on.  No
\* word of the vocabularies holds two fragments, so they occur in distinct words.
RECURSIVE SpanAt(_, _, _)
SpanAt(ws, i, span) ==
  IF span = << >> THEN TRUE
  ELSE \E j \in i..Len(ws) : Head(span) \in Fragments(ws[j]) /\ SpanAt(ws, j + 1, Tail(span))

GenerateEmailSpans ==
  {<<"generate", "email">>, <<"write", "email">>, <<"create", "email">>, <<"draft", "email">>,
   <<"email", "that">>, <<"email", "explain">>, <<"email", "communicate">>,
   <<"email", "to", "customer">>, <<"email", "to", "client">>}

\* computed beside the other classifiers; it selects the prompt, not the search
IsGenerateEmailQuery(ws) == \E span \in GenerateEmailSpans : SpanAt(ws, 1, span)

KeywordTrigger(ws) ==
  IsLicensingQuery(ws) \/ IsReportingObligationQuery(ws) \/ IsHowToInformQuery(ws)

LicensingKeywords ==
  <<"must be licensed", "licensed and subscribed", "all Servers", "all Cores", "all vCPUs",
    "all environments", "production, test, development", "production", "Scope",
    "Scope of Services", "use with the Software", "must be licensed and subscribed">>

ReportingKeywords ==
  <<"promptly notify", "must notify", "must promptly notify", "reporting", "notify",
    "over-usage", "exceeding quantity", "usage exceeds", "exceeds the quantity",
    "exceeds the quantity of licensed", "exceeds the scope", "Section 4", "Section 4.4",
    "Fees and Payments", "usage reports", "must promptly notify MariaDB">>

AllKeywords(ws) ==
  IF IsHowToInformQuery(ws) THEN ReportingKeywords \o LicensingKeywords
  ELSE IF IsReportingObligationQuery(ws) THEN ReportingKeywords \o LicensingKeywords
  ELSE LicensingKeywords \o ReportingKeywords

\* ----------------------------------------------------------------- store
\* A passage row joined with its document: document_name, CHAR_LENGTH(content)
\* as len, the tokenizer's count for content as tok, the curated phrases that
\* occur in content or section_title as phrases, and 1 - VEC_DISTANCE of its
\* embedding to the query vector as sim.  ids follow the row order.
PassageKinds ==
  { [document_name |-> "Business Source License", len |-> 60, tok |-> 700, phrases |-> {}, sim |-> 8000],
    [document_name |-> "Subscription Agreement", len |-> 60, tok |-> 1000,
       phrases |-> {"must promptly notify", "promptly notify", "notify"}, sim |-> 8000],
    [document_name |-> "Subscription Agreement", len |-> 60, tok |-> 300,
       phrases |-> {"must promptly notify", "promptly notify", "notify"}, sim |-> 6000],
    [document_name |-> "MaxScale Guide", len |-> 60, tok |-> 1500, phrases |-> {}, sim |-> 9500],
    [document_name |-> "MaxScale Guide", len |-> 10, tok |-> 5, phrases |-> {"notify"}, sim |-> 9000] }

FillKind ==
  [document_name |-> "Subscription Agreement", len |-> 60, tok |-> 100, phrases |-> {"production"}, sim |-> 5000]

WithId(k, i) ==
  [id |-> i, document_name |-> k.document_name, len |-> k.len, tok |-> k.tok,
   phrases |-> k.phrases, sim |-> k.sim]

\* fill rows first, then the drawn kinds
MakeStore(fill, kinds) ==
  [i \in 1..(fill + Len(kinds)) |->
     IF i <= fill THEN WithId(FillKind, i) ELSE WithId(kinds[i - fill], i)]

Stores == {MakeStore(f, ks) : f \in {0, MaxFill}, ks \in SeqsUpTo(PassageKinds, MaxStore)}

\* stores without fill rows, as the product and GTM tables
PlainStores == {MakeStore(0, ks) : ks \in SeqsUpTo(PassageKinds, MaxStore)}

\* stores of at most one row, for the requests that are followed from entry
HandlerStores == {MakeStore(0, ks) : ks \in SeqsUpTo(PassageKinds, 1)}

\* Words and rows for the search stage: every boost tier, a name that holds
\* two aliases, similarities at the thresholds, an embedding identical to the
\* query vector, an embedding pointing away from it, a passage one character
\* short of the minimum length, a drafting request.
SearchVocabulary == {"BSL", "subscription", "maxscale", "license"}

\* a request to draft an email, alone or followed by further words
DraftQueries == {<<"draft", "email">> \o q : q \in SeqsUpTo({"license"}, MaxWords - 2)}

SearchQueries == (SeqsUpTo(SearchVocabulary, MaxWords) \ {<< >>}) \cup DraftQueries

AtProductThreshold ==
  [document_name |-> "BSL Subscription Addendum", len |-> 60, tok |-> 100, phrases |-> {}, sim |-> 7800]

AtLegalThreshold ==
  [document_name |-> "MaxScale Guide", len |-> 60, tok |-> 100, phrases |-> {}, sim |-> 7000]

Identical ==
  [document_name |-> "MaxScale Guide", len |-> 60, tok |-> 100, phrases |-> {}, sim |-> One]

Opposite ==
  [document_name |-> "Subscription Agreement", len |-> 60, tok |-> 100,
   phrases |-> {"notify"}, sim |-> 0 - 2000]

TooShort ==
  [document_name |-> "MaxScale Guide", len |-> 49, tok |-> 20, phrases |-> {"notify"}, sim |-> 9000]

SearchKinds == {AtProductThreshold, AtLegalThreshold, Identical, Opposite, TooShort}

\* the kinds drawn after the fill rows
BoundaryKinds == {AtProductThreshold, AtLegalThreshold, Identical, TooShort}

\* a row above every threshold without a curated phrase
EligibleFill ==
  [document_name |-> "MaxScale Guide", len |-> 60, tok |-> 50, phrases |-> {}, sim |-> 7900]

\* fill rows of FillKind, then fill rows of EligibleFill, then the drawn kinds
MakeSearchStore(fill, kinds) ==
  [i \in 1..(2 * fill + Len(kinds)) |->
     IF i <= fill THEN WithId(FillKind, i)
     ELSE IF i <= 2 * fill THEN WithId(EligibleFill, i)
     ELSE WithId(kinds[i - 2 * fill], i)]

SearchStores == {MakeSearchStore(0, ks) : ks \in SeqsUpTo(SearchKinds, MaxStore)}

\* stores that hold more rows than the searches return
FullStores == {MakeSearchStore(MaxFill, ks) : ks \in SeqsUpTo(BoundaryKinds, MaxStore)}

\* the queries put to them: no alias, a 1.20 alias, the keyword search
FullQueries == SeqsUpTo({"maxscale", "license"}, MaxWords) \ {<< >>}

SelectEffectDeletes(st) == IF st = << >> THEN st ELSE Tail(st)

\* the rows of the table after a SELECT statement ran on it
SelectEffect(st) == st

Ids(rows) == {rows[i].id : i \in DOMAIN rows}

Row(p, similarity) ==
  [id |-> p.id, document_name |-> p.document_name, tok |-> p.tok, similarity |-> similarity]

VectorSearchInclusive(st, d) ==
  Bind(SelectSeq(st, LAMBDA p : p.sim >= MatchThreshold(d)), LAMBDA eligible :
  Bind([i \in DOMAIN eligible |-> One - eligible[i].sim], LAMBDA distance :
  Bind(Slice(StableSortByKey(eligible, distance), MatchCount(d)), LAMBDA limited :
    [i \in DOMAIN limited |-> Row(limited[i], limited[i].sim)])))

\* SELECT ... WHERE CHAR_LENGTH(content) >= ? AND (1 - VEC_DISTANCE) > ?
\* ORDER BY VEC_DISTANCE ASC LIMIT ?
VectorSearch(st, d) ==
  Bind(SelectSeq(st, LAMBDA p : p.len >= MinContentLength /\ p.sim > MatchThreshold(d)),
       LAMBDA eligible :
  Bind([i \in DOMAIN eligible |-> One - eligible[i].sim], LAMBDA distance :
  Bind(Slice(StableSortByKey(eligible, distance), MatchCount(d)), LAMBDA limited :
    [i \in DOMAIN limited |-> Row(limited[i], limited[i].sim)])))

\* docNameLower.includes(keyword) for the document names of the store
NameIncludes(name, keyword) ==
  CASE name = "Business Source License" -> keyword \in {"business source", "business source license"}
    [] name = "Subscription Agreement" -> keyword \in {"subscription agreement", "subscription"}
    [] name = "MaxScale Guide" -> keyword \in {"maxscale"}
    [] name = "BSL Subscription Addendum" -> keyword \in {"bsl", "subscription"}
    [] OTHER -> FALSE

BoostFactorFlat(keyword) == 125

\* keyword.length > 10 ? 1.25 : keyword.length > 5 ? 1.20 : 1.15, in hundredths
BoostFactor(keyword) ==
  IF Len(keyword) > 10 THEN 125 ELSE IF Len(keyword) > 5 THEN 120 ELSE 115

RECURSIVE BoostedSimilarityUnclamped(_, _)
BoostedSimilarityUnclamped(section, keywords) ==
  IF keywords = << >> THEN section.similarity
  ELSE IF NameIncludes(section.document_name, Head(keywords))
       THEN (section.similarity * BoostFactor(Head(keywords))) \div 100
       ELSE BoostedSimilarityUnclamped(section, Tail(keywords))

\* the body of legalSections.map: the first keyword the name includes boosts
RECURSIVE BoostedSimilarity(_, _)
BoostedSimilarity(section, keywords) ==
  IF keywords = << >> THEN section.similarity
  ELSE IF NameIncludes(section.document_name, Head(keywords))
       THEN Min(One, (section.similarity * BoostFactor(Head(keywords))) \div 100)
       ELSE BoostedSimilarity(section, Tail(keywords))

\* legalSections.map(boost) and the re-sort by boosted similarity
BoostSections(rows, keywords) ==
  IF Len(keywords) > 0
  THEN Bind([i \in DOMAIN rows |->
               [rows[i] EXCEPT !.similarity = BoostedSimilarity(rows[i], keywords)]],
            LAMBDA boosted :
       Bind([i \in DOMAIN boosted |-> One - boosted[i].similarity], LAMBDA key :
         StableSortByKey(boosted, key)))
  ELSE rows

KeywordSearchAboveThreshold(st, keywords) ==
  Bind(Range(keywords), LAMBDA curated :
  Bind(Slice(SelectSeq(st, LAMBDA p : /\ p.len >= MinContentLength
                                   /\ p.sim > MatchThreshold("legal")
                                   /\ p.phrases \cap curated # {}), KeywordLimit),
       LAMBDA limited :
    [i \in DOMAIN limited |-> Row(limited[i], KeywordSimilarity)]))

\* SELECT ..., 0.85 AS similarity WHERE CHAR_LENGTH(content) >= ? AND
\* (content LIKE %kw% OR section_title LIKE %kw% OR ...) LIMIT 10
KeywordSearch(st, keywords) ==
  Bind(Range(keywords), LAMBDA curated :
  Bind(Slice(SelectSeq(st, LAMBDA p : /\ p.len >= MinContentLength
                                   /\ p.phrases \cap curated # {}), KeywordLimit),
       LAMBDA limited :
    [i \in DOMAIN limited |-> Row(limited[i], KeywordSimilarity)]))

MergeKeyBySimilarityOnly(section, keywordIds) == One - section.similarity

MergeKeyVectorFirst(section, keywordIds) ==
  (IF section.id \in keywordIds THEN One + 1 ELSE 0) + (One - section.similarity)

\* comparator of the merge sort: keyword-boosted ids first, then by similarity
MergeKey(section, keywordIds) ==
  (IF section.id \in keywordIds THEN 0 ELSE One + 1) + (One - section.similarity)

NewSectionsUnfiltered(legalSections, keywordBoostedSections) == keywordBoostedSections

\* keywordBoostedSections.filter(s => !existingIds.has(s.id))
NewSections(legalSections, keywordBoostedSections) ==
  Bind(Ids(legalSections), LAMBDA existingIds :
    SelectSeq(keywordBoostedSections, LAMBDA s : s.id \notin existingIds))

Merge(legalSections, keywordBoostedSections, d) ==
  IF Len(keywordBoostedSections) > 0
  THEN Bind(NewSections(legalSections, keywordBoostedSections) \o legalSections,
            LAMBDA combined :
       Bind(Ids(keywordBoostedSections), LAMBDA keywordIds :
       Bind([i \in DOMAIN combined |-> MergeKey(combined[i], keywordIds)], LAMBDA key :
         Slice(StableSortByKey(combined, key), MatchCount(d) + Overflow))))
  ELSE legalSections

\* ---------------------------------------------------------------- packing
\* Math.round(similarity * 100)
SimilarityPercent(similarity) == (similarity + 50) \div 100

\* one formatted block of contextText; content names the passage whose whole
\* trimmed content the block carries
Block(section, d) ==
  IF d = "product"
  THEN [document_name |-> section.document_name, content |-> section.id]
  ELSE [document_name |-> section.document_name,
        percent |-> SimilarityPercent(section.similarity), content |-> section.id]

BudgetReachedStrictly(tokenCount, d) == tokenCount > TokenBudget(d)

\* the break condition of the packing loop
BudgetReached(tokenCount, d) == tokenCount >= TokenBudget(d)

\* for (i ...) { tokenCount += tokens; if (tokenCount >= budget) break; contextText += block }
RECURSIVE PackLoop(_, _, _, _, _)
PackLoop(rows, i, tokenCount, contextText, d) ==
  IF i > Len(rows) THEN [tokenCount |-> tokenCount, contextText |-> contextText]
  ELSE Bind(tokenCount + rows[i].tok, LAMBDA count :
         IF BudgetReached(count, d)
         THEN [tokenCount |-> count, contextText |-> contextText]
         ELSE Bind(Append(contextText, Block(rows[i], d)), LAMBDA appended :
                PackLoop(rows, i + 1, count, appended, d)))

Pack(rows, d) == PackLoop(rows, 1, 0, << >>, d)

\* sections.slice(0, sections.length).map(...): Math.round(similarity * 100) / 100
UsedSections(rows) ==
  Bind(Slice(rows, Len(rows)), LAMBDA used :
    [i \in DOMAIN used |->
       [id |-> used[i].id, document_name |-> used[i].document_name,
        similarity |-> SimilarityPercent(used[i].similarity) * 100]])

\* ------------------------------------------------------------------ state
VARIABLES
  domain,          \* which handler serves the request
  query,           \* the request's prompt, as words
  store,           \* rows of the sections table joined with their documents
  req,             \* what the handler read at entry: key, db config, method, body
  pc,              \* position of the handler
  modState,        \* createModeration promise
  embState,        \* createEmbedding promise
  events,          \* external calls and completions, in order
  vectorSections,  \* legalSections before the merge (vector rows, boosted)
  keywordBoostedSections,
  sections,        \* the ranked list the packing loop iterates
  tokenCount,
  contextText,
  status,          \* HTTP status of the response, 0 while none
  body,            \* JSON body of an error response, or "stream"
  written,         \* chunks written to the response with res.write
  ended,           \* number of times the response was finished
  logged,          \* console.error calls
  upload,          \* the upload handler's locals and the product tables
  indexer,         \* the embeddings script: its position and the page tables
  dbPool,          \* the module variable pool of lib/db and the pools created
  suggest          \* the suggested-questions handler: tables read, questions sent

vars == <<domain, query, store, req, pc, modState, embState, events, vectorSections,
          keywordBoostedSections, sections, tokenCount, contextText, status, body,
          written, ended, logged, upload, indexer, dbPool, suggest>>

\* the embeddings script before its first run, on empty page tables
NoIndexer ==
  [exists |-> FALSE, checksum |-> "NULL", page_section |-> << >>, runs |-> 0, content |-> "",
   refresh |-> FALSE, ipc |-> "idle", index |-> 0]

\* lib/db before the first call of getDbPool: pool is null (0), no pool was
\* created, no closeDbPool call is waiting, nothing was returned
NoPool ==
  [pool |-> 0, pools |-> << >>, closing |-> << >>, calls |-> 0, returned |-> 0,
   returnedEnding |-> FALSE]

\* the suggested-questions handler before a request
NoSuggest ==
  [variant |-> "", documents |-> 0, withSections |-> 0, titled |-> FALSE, questions |-> -1,
   hasDocuments |-> "none"]

NoReq == [key |-> FALSE, db |-> FALSE, method |-> "", data |-> FALSE, prompt |-> ""]

NoUpload ==
  [form |-> "", name |-> FALSE, content |-> << >>, productId |-> 0, sections |-> << >>,
   index |-> 0, products |-> {}, product_sections |-> << >>, nextId |-> 1,
   legal_documents |-> {}, legal_sections |-> << >>,
   deletes |-> << >>]

Init ==
  /\ domain \in Domains
  /\ query \in Queries
  /\ store \in HandlerStores
  /\ req = NoReq
  /\ pc = "start"
  /\ modState = "idle"
  /\ embState = "idle"
  /\ events = << >>
  /\ vectorSections = << >>
  /\ keywordBoostedSections = << >>
  /\ sections = << >>
  /\ tokenCount = 0
  /\ contextText = << >>
  /\ status = 0
  /\ body = "none"
  /\ written = << >>
  /\ ended = 0
  /\ logged = << >>
  /\ upload = NoUpload
  /\ indexer = NoIndexer
  /\ dbPool = NoPool
  /\ suggest = NoSuggest

retrieval == <<vectorSections, keywordBoostedSections, sections, tokenCount, contextText>>
inputs == <<domain, query>>
scripts == <<indexer, dbPool, suggest>>

\* res.status(code).json(...) : one JSON response, finished
Respond(code, json, log) ==
  /\ status' = code
  /\ body' = json
  /\ ended' = ended + 1
  /\ logged' = logged \o log
  /\ pc' = "done"
  /\ UNCHANGED written

\* the catch block: UserError -> 400 with message and data, ApplicationError
\* -> logged, anything else -> logged; both -> 500 with the fixed message
Catch(err) ==
  IF err.class = "UserError" THEN Respond(400, err.message, << >>)
  ELSE Respond(500, "There was an error processing your request", <<err.message>>)

UserError(message) == [class |-> "UserError", message |-> message]
ApplicationError(message) == [class |-> "ApplicationError", message |-> message]
OtherError(message) == [class |-> "Error", message |-> message]

PromiseRaceSettled(m, e) ==
  \/ m \in {"ok", "flagged", "failed"}
  \/ e \in {"ok", "bad", "garbled", "failed"}

\* Promise.all over the two calls settles: rejected as soon as one of them
\* rejects, fulfilled when both are fulfilled
PromiseAllSettled(m, e) ==
  \/ m = "failed"
  \/ e = "failed"
  \/ (m \in {"ok", "flagged"} /\ e \in {"ok", "bad", "garbled"})

StatusCheckDropped(e) == FALSE

\* embeddingResponse.status !== 200
StatusNot200(e) == e = "bad"

\* the prompt of the request body: the words of query joined by spaces; when
\* there are no words it is absent (missing or "") or, if blank, white space
Prompt(ws, blank) == IF ws # << >> THEN "text" ELSE IF blank THEN "blank" ELSE "absent"

\* entry of the handler up to the await of Promise.all
HandlerEntry(key, db, method, data, blank) ==
  /\ pc = "start"
  /\ req' = [key |-> key, db |-> db, method |-> method, data |-> data,
             prompt |-> Prompt(query, blank)]
  /\ UNCHANGED <<inputs, scripts, store, upload, retrieval>>
  /\ IF ~key THEN
       Catch(ApplicationError("Missing environment variable OPENAI_KEY"))
       /\ UNCHANGED <<modState, embState, events>>
     ELSE IF ~db THEN
       Catch(ApplicationError("Missing database environment variables"))
       /\ UNCHANGED <<modState, embState, events>>
     ELSE IF method # "POST" THEN
       Respond(405, "Method not allowed", << >>)
       /\ UNCHANGED <<modState, embState, events>>
     ELSE IF ~data THEN
       Catch(UserError("Missing request data"))
       /\ UNCHANGED <<modState, embState, events>>
     ELSE IF Prompt(query, blank) = "absent" THEN
       Catch(UserError("Missing query in request data"))
       /\ UNCHANGED <<modState, embState, events>>
     ELSE
       /\ modState' = "inflight"
       /\ embState' = "inflight"
       /\ events' = events \o <<"moderation_start", "embedding_start">>
       /\ pc' = "calls"
       /\ UNCHANGED <<status, body, written, ended, logged>>

\* the moderation call (with its .then(res => res.json())) settles
ModerationCompletes(outcome) ==
  /\ modState = "inflight"
  /\ modState' = outcome
  /\ events' = Append(events, "moderation_done")
  /\ UNCHANGED <<inputs, scripts, store, upload, req, pc, embState, retrieval, status, body, written, ended, logged>>

\* the embedding call settles: status 200, another status, rejected, or
\* status 200 with a body that does not parse
EmbeddingCompletes(outcome) ==
  /\ embState = "inflight"
  /\ embState' = outcome
  /\ events' = Append(events, "embedding_done")
  /\ UNCHANGED <<inputs, scripts, store, upload, req, pc, modState, retrieval, status, body, written, ended, logged>>

\* after the await of Promise.all, up to the await of the vector query
Join ==
  /\ pc = "calls"
  /\ PromiseAllSettled(modState, embState)
  /\ UNCHANGED <<inputs, scripts, store, upload, req, modState, embState, retrieval>>
  /\ IF modState = "failed" \/ embState = "failed" THEN
       Catch(OtherError("fetch failed")) /\ UNCHANGED events
     ELSE IF modState = "flagged" THEN
       Catch(UserError("Flagged content")) /\ UNCHANGED events
     ELSE IF StatusNot200(embState) THEN
       Catch(ApplicationError("Failed to create embedding for question")) /\ UNCHANGED events
     ELSE IF embState = "garbled" THEN
       Catch(OtherError("invalid json")) /\ UNCHANGED events
     ELSE
       /\ events' = Append(events, "vector_query")
       /\ pc' = "vector"
       /\ UNCHANGED <<status, body, written, ended, logged>>

RankPackGenerateRejectingEmpty(vs, ks) ==
  IF vs = << >> /\ ks = << >>
  THEN Catch(UserError("No matching sections")) /\ UNCHANGED <<retrieval, events>>
  ELSE \E merged \in {IF domain = "legal" THEN Merge(vs, ks, domain) ELSE vs} :
       \E packed \in {Pack(merged, domain)} :
          /\ vectorSections' = vs
          /\ keywordBoostedSections' = ks
          /\ sections' = merged
          /\ tokenCount' = packed.tokenCount
          /\ contextText' = packed.contextText
          /\ events' = Append(events, "generation")
          /\ pc' = "generate"
          /\ UNCHANGED <<status, body, written, ended, logged>>

\* merge, packing loop, prompt, and the call of createChatCompletion
RankPackGenerate(vs, ks) ==
  \E merged \in {IF domain = "legal" THEN Merge(vs, ks, domain) ELSE vs} :
  \E packed \in {Pack(merged, domain)} :
     /\ vectorSections' = vs
     /\ keywordBoostedSections' = ks
     /\ sections' = merged
     /\ tokenCount' = packed.tokenCount
     /\ contextText' = packed.contextText
     /\ events' = Append(events, "generation")
     /\ pc' = "generate"
     /\ UNCHANGED <<status, body, written, ended, logged>>

\* the vector query returns (or rejects); legal: boost, classify, keyword query
VectorSearchReturns(ok) ==
  /\ pc = "vector"
  /\ store' = SelectEffect(store)
  /\ UNCHANGED <<inputs, scripts, upload, req, modState, embState>>
  /\ IF ~ok THEN
       Catch(OtherError("query failed"))
       /\ events' = Append(events, "query_failed")
       /\ UNCHANGED retrieval
     ELSE IF domain = "legal" THEN
       \E vs \in {BoostSections(VectorSearch(store, domain), DocumentKeywords(query))} :
          IF KeywordTrigger(query)
          THEN /\ vectorSections' = vs
               /\ events' = Append(events, "keyword_query")
               /\ pc' = "keyword"
               /\ UNCHANGED <<keywordBoostedSections, sections, tokenCount, contextText,
                              status, body, written, ended, logged>>
          ELSE RankPackGenerate(vs, << >>)
     ELSE \E vs \in {VectorSearch(store, domain)} : RankPackGenerate(vs, << >>)

\* the keyword query returns (or rejects)
KeywordSearchReturns(ok) ==
  /\ pc = "keyword"
  /\ store' = SelectEffect(store)
  /\ UNCHANGED <<inputs, scripts, upload, req, modState, embState>>
  /\ IF ~ok THEN
       Catch(OtherError("query failed"))
       /\ events' = Append(events, "query_failed")
       /\ UNCHANGED retrieval
     ELSE \E ks \in {KeywordSearch(store, AllKeywords(query))} :
            RankPackGenerate(vectorSections, ks)

\* createChatCompletion returns ok, returns not ok, or rejects
GenerationReturns(outcome) ==
  /\ pc = "generate"
  /\ UNCHANGED <<inputs, scripts, store, upload, req, modState, embState, retrieval, events>>
  /\ IF outcome = "failed" THEN Catch(OtherError("fetch failed"))
     ELSE IF outcome = "notok" THEN Catch(ApplicationError("Failed to generate completion"))
     ELSE /\ pc' = "stream"
          /\ body' = "stream"
          /\ UNCHANGED <<status, written, ended, logged>>

\* reader.read() yields a chunk: res.write(chunk)
StreamChunk ==
  /\ pc = "stream"
  /\ Len(written) < MaxChunks
  /\ written' = Append(written, [kind |-> "chunk", n |-> Len(written) + 1])
  /\ status' = 200
  /\ UNCHANGED <<inputs, scripts, store, upload, req, pc, modState, embState, retrieval, events, body, ended, logged>>

\* reader.read() reports done: write the sources trailer, end the response
StreamDone ==
  /\ pc = "stream"
  /\ \E usedSections \in {UsedSections(sections)} :
       written' = Append(written, [kind |-> "sources", sources |-> usedSections])
  /\ status' = 200
  /\ ended' = ended + 1
  /\ pc' = "done"
  /\ UNCHANGED <<inputs, scripts, store, upload, req, modState, embState, retrieval, events, body, logged>>

StreamErrorAnswersJson ==
  /\ pc = "stream"
  /\ Respond(500, "There was an error processing your request", <<"Stream error">>)
  /\ UNCHANGED <<inputs, scripts, store, upload, req, modState, embState, retrieval, events>>

StreamErrorWritesTrailer ==
  /\ pc = "stream"
  /\ \E usedSections \in {UsedSections(sections)} :
       written' = Append(written, [kind |-> "sources", sources |-> usedSections])
  /\ status' = 200
  /\ ended' = ended + 1
  /\ logged' = Append(logged, "Stream error")
  /\ pc' = "done"
  /\ UNCHANGED <<inputs, scripts, store, upload, req, modState, embState, retrieval, events, body>>

\* reader.read() or res.write throws: logged, response ended
StreamError ==
  /\ pc = "stream"
  /\ status' = 200
  /\ ended' = ended + 1
  /\ logged' = Append(logged, "Stream error")
  /\ pc' = "done"
  /\ UNCHANGED <<inputs, scripts, store, upload, req, modState, embState, retrieval, events, body, written>>

\* ------------------------------------------------------- upload handler
\* The content of an upload: its paragraphs, separated by blank lines, each
\* given by its position and its trimmed length; << >> is a missing or empty
\* content, a single paragraph of length 0 is content of white space only.
ParagraphLengths == {50, 51}

UploadContents ==
  {[i \in DOMAIN ls |-> [at |-> i, len |-> ls[i]]] :
     ls \in SeqsUpTo(ParagraphLengths, MaxParagraphs) \cup {<<0>>}}

RECURSIVE SumLen(_)
SumLen(ps) == IF ps = << >> THEN 0 ELSE Head(ps).len + SumLen(Tail(ps))

\* content.trim(), as the section at position 0
Whole(content) == [at |-> 0, len |-> SumLen(content) + 2 * (Len(content) - 1)]

\* content.split(/\n\s*\n/).map(trim).filter(length > 50), or the whole content
SplitSections(content) ==
  LET kept == SelectSeq(content, LAMBDA p : p.len > 50)
  IN IF Len(kept) = 0 THEN <<Whole(content)>> ELSE kept

UploadForms ==
  {"json", "multipart", "pdf", "nothing_provided", "too_large", "malformed", "bad_pdf"}

\* messages of rejected calls that contain "exceeded"
ExceededMessages ==
  {"Lock wait timeout exceeded; try restarting transaction", "timeout of 60000ms exceeded"}

\* errorMessage.includes('exceeded') || errorMessage.includes('maxFileSize')
MentionsExceeded(message) == message \in ExceededMessages

\* the message of the error a rejected call throws
Rejection(outcome, message) ==
  IF outcome = "exceeded"
  THEN CHOOSE m \in ExceededMessages : (message = "query failed") <=> (m # "timeout of 60000ms exceeded")
  ELSE message

\* the last branch of the catch block: logged; a message with "exceeded" is
\* answered 400 as a file too large, any other 500 with the message
OtherCatch(message, log) ==
  IF MentionsExceeded(message)
  THEN Respond(400, "File too large. Maximum file size is 50MB. Please try a smaller file.",
               Append(log, "Upload error"))
  ELSE Respond(500, message, Append(log, "Upload error"))

\* the catch block of the upload handler
UploadCatch(err) ==
  IF err.class = "UserError" THEN Respond(400, err.message, << >>)
  ELSE IF err.class = "ApplicationError" THEN Respond(500, err.message, <<err.message>>)
  ELSE OtherCatch(err.message, << >>)

\* the catch inside the loop of the sections logs and rethrows
SectionCatch(message) == OtherCatch(message, <<"Failed to generate embeddings for section">>)

\* FOREIGN KEY (product_id) REFERENCES products(id): a section row is
\* accepted only while its product row exists
ForeignKeyHolds(product_id, products) == product_id \in products

\* ON DELETE CASCADE on products: the rows of product_sections left by the
\* DELETE of the product id
ProductCascade(rows, id) == SelectSeq(rows, LAMBDA r : r.product_id # id)

\* ON DELETE CASCADE on legal_documents: the rows of legal_sections left by
\* the DELETE of the document id
DeleteCascade(rows, id) == SelectSeq(rows, LAMBDA r : r.legal_id # id)

\* the checks of name and content, getDbPool() and the call of the INSERT of
\* the product, up to its await
InsertProduct(name, content, db) ==
  IF ~name \/ content = << >> THEN
    UploadCatch(UserError("Missing required fields: name and content"))
    /\ UNCHANGED events
  ELSE IF ~db THEN
    UploadCatch(OtherError("Missing database environment variables"))
    /\ UNCHANGED events
  ELSE
    /\ events' = Append(events, "insert_product")
    /\ pc' = "product"
    /\ UNCHANGED <<status, body, written, ended, logged>>

\* entry of the upload handler: a multipart request is handed to formidable
\* and the handler awaits the parsed form; a JSON request goes on to the
\* await of the INSERT of the product. form, name and content are what the
\* request carries.
UploadEntry(key, db, method, form, name, content) ==
  /\ pc = "start"
  /\ req' = [key |-> key, db |-> db, method |-> method, data |-> TRUE, prompt |-> ""]
  /\ upload' = [upload EXCEPT !.form = form, !.name = name, !.content = content]
  /\ UNCHANGED <<inputs, scripts, store, retrieval, modState, embState>>
  /\ IF ~key THEN
       UploadCatch(ApplicationError("Missing environment variable OPENAI_KEY"))
       /\ UNCHANGED events
     ELSE IF method # "POST" THEN
       Respond(405, "Method not allowed", << >>)
       /\ UNCHANGED events
     ELSE IF form # "json" THEN
       /\ events' = Append(events, "parse_form")
       /\ pc' = "parse"
       /\ UNCHANGED <<status, body, written, ended, logged>>
     ELSE InsertProduct(name, content, db)

\* parseForm settles: rejected for a file over the limit or a malformed
\* body; a PDF file is handed to extractTextFromPDF and awaited; a text file
\* or a content field is read at once
FormParsed ==
  /\ pc = "parse"
  /\ UNCHANGED <<inputs, scripts, store, req, upload, retrieval, modState, embState>>
  /\ IF upload.form = "too_large" THEN
       UploadCatch(UserError("File too large. Maximum size is 50MB."))
       /\ UNCHANGED events
     ELSE IF upload.form = "malformed" THEN
       UploadCatch(UserError("Error parsing form"))
       /\ UNCHANGED events
     ELSE IF upload.form \in {"pdf", "bad_pdf"} THEN
       /\ events' = Append(events, "extract_text")
       /\ pc' = "pdf"
       /\ UNCHANGED <<status, body, written, ended, logged>>
     ELSE IF upload.form = "nothing_provided" THEN
       UploadCatch(UserError("No file or content provided"))
       /\ UNCHANGED events
     ELSE InsertProduct(upload.name, upload.content, req.db)

\* extractTextFromPDF settles: rejected for a file pdf-parse cannot read,
\* else its text is the content
PdfExtracted ==
  /\ pc = "pdf"
  /\ UNCHANGED <<inputs, scripts, store, req, upload, retrieval, modState, embState>>
  /\ IF upload.form = "bad_pdf" THEN
       UploadCatch(OtherError("Invalid PDF structure"))
       /\ UNCHANGED events
     ELSE InsertProduct(upload.name, upload.content, req.db)

\* the INSERT of the product returns (or rejects); split the content and
\* call the embedding service for the first section
ProductInserted(outcome) ==
  /\ pc = "product"
  /\ UNCHANGED <<inputs, scripts, store, req, retrieval, modState, embState>>
  /\ IF outcome # "ok" THEN
       UploadCatch(OtherError(Rejection(outcome, "query failed")))
       /\ UNCHANGED <<upload, events>>
     ELSE
       \E productId \in {upload.nextId} :
         /\ upload' = [upload EXCEPT !.productId = productId,
                                     !.nextId = @ + 1,
                                     !.products = @ \cup {productId},
                                     !.sections = SplitSections(upload.content),
                                     !.index = 1]
         /\ events' = Append(events, "embedding_start")
         /\ pc' = "embedding"
         /\ UNCHANGED <<status, body, written, ended, logged>>

\* the embedding call for the current section returns; on success the
\* INSERT of the section is issued, otherwise the error is logged and rethrown
SectionEmbedded(outcome) ==
  /\ pc = "embedding"
  /\ UNCHANGED <<inputs, scripts, store, req, retrieval, modState, embState, upload>>
  /\ IF outcome \in {"failed", "exceeded"} THEN
       SectionCatch(Rejection(outcome, "fetch failed")) /\ UNCHANGED events
     ELSE IF outcome = "bad" THEN
       SectionCatch("Failed to create embedding") /\ UNCHANGED events
     ELSE
       /\ events' = Append(events, "insert_section")
       /\ pc' = "section"
       /\ UNCHANGED <<status, body, written, ended, logged>>

\* the INSERT of the current section returns (or rejects); go on with the
\* next section or answer 200
SectionInserted(outcome) ==
  /\ pc = "section"
  /\ UNCHANGED <<inputs, scripts, store, req, retrieval, modState, embState>>
  /\ IF outcome # "ok" THEN
       SectionCatch(Rejection(outcome, "query failed")) /\ UNCHANGED <<upload, events>>
     ELSE IF ~ ForeignKeyHolds(upload.productId, upload.products) THEN
       SectionCatch("a foreign key constraint fails") /\ UNCHANGED <<upload, events>>
     ELSE
       \E section \in {upload.sections[upload.index]} :
       \E row \in {[product_id |-> upload.productId, content |-> section,
                     embedding |-> section.at]} :
         IF upload.index < Len(upload.sections)
         THEN /\ upload' = [upload EXCEPT !.product_sections = Append(@, row),
                                          !.index = @ + 1]
              /\ events' = Append(events, "embedding_start")
              /\ pc' = "embedding"
              /\ UNCHANGED <<status, body, written, ended, logged>>
         ELSE /\ upload' = [upload EXCEPT !.product_sections = Append(@, row)]
              /\ Respond(200, "Product uploaded and embeddings generated successfully", << >>)
              /\ UNCHANGED events

\* The delete handlers serve requests of their own while another request is
\* in progress. The id is validated, then the method, and the DELETE is sent;
\* the handler awaits it. When it returns, the row of the documents table and,
\* by the cascade, its rows of the sections table are gone, in one statement,
\* and the handler answers. Every 500 is logged. deletes holds one record
\* for each request: the table, the status answered (0 while the DELETE is
\* outstanding), the id, the number of section rows removed.
DeleteIds == {"abc", "1"}

ParseInt(id) == IF id = "1" THEN 1 ELSE 0

DeleteResponse(table, code, id, removed) ==
  [table |-> table, status |-> code, deleted |-> id, removed |-> removed, logged |-> code = 500]

\* the handler up to the await of the DELETE, or to its answer
DeleteRequest(table, db, id, method) ==
  /\ Len(upload.deletes) < MaxDeletes
  /\ UNCHANGED <<inputs, scripts, store, req, pc, retrieval, modState, embState, events, status, body,
                 written, ended, logged>>
  /\ IF ~db THEN
       upload' = [upload EXCEPT !.deletes = Append(@, DeleteResponse(table, 500, 0, 0))]
     ELSE IF id = "" \/ ParseInt(id) = 0 THEN
       upload' = [upload EXCEPT !.deletes = Append(@, DeleteResponse(table, 400, 0, 0))]
     ELSE IF method # "DELETE" THEN
       upload' = [upload EXCEPT !.deletes = Append(@, DeleteResponse(table, 405, 0, 0))]
     ELSE
       upload' = [upload EXCEPT !.deletes = Append(@, DeleteResponse(table, 0, ParseInt(id), 0))]

\* DELETE /api/legal/<id>
DeleteDocument(db, id, method) ==
  /\ domain \in {"upload", "legal"}
  /\ DeleteRequest("legal_documents", db, id, method)

\* DELETE /api/gtm/<id>
DeleteGtmDocument(db, id, method) ==
  /\ domain = "gtm"
  /\ DeleteRequest("gtm_documents", db, id, method)

\* the documents of the rows of the store, by name
DocumentNames ==
  <<"Business Source License", "Subscription Agreement", "MaxScale Guide",
    "BSL Subscription Addendum">>

DocumentId(name) == CHOOSE i \in DOMAIN DocumentNames : DocumentNames[i] = name

\* ON DELETE CASCADE, on sections joined with their documents
StoreCascade(rows, id) == SelectSeq(rows, LAMBDA r : DocumentId(r.document_name) # id)

\* the DELETE of the i-th delete request returns (or rejects) and the handler
\* answers; the tables are the store of a retrieval handler or, next to the
\* product tables of an upload, the legal tables
DeleteReturns(i, ok) ==
  /\ i \in DOMAIN upload.deletes
  /\ upload.deletes[i].status = 0
  /\ UNCHANGED <<inputs, scripts, req, pc, retrieval, modState, embState, events, status, body,
                 written, ended, logged>>
  /\ \E table \in {upload.deletes[i].table}, id \in {upload.deletes[i].deleted} :
       IF ~ok THEN
         /\ upload' = [upload EXCEPT !.deletes[i] = DeleteResponse(table, 500, 0, 0)]
         /\ UNCHANGED store
       ELSE IF domain = "upload" THEN
         /\ \E left \in {DeleteCascade(upload.legal_sections, id)} :
              upload' = [upload EXCEPT
                           !.legal_documents = @ \ {id},
                           !.legal_sections = left,
                           !.deletes[i] = DeleteResponse(table, 200, id,
                                                         Len(upload.legal_sections) - Len(left))]
         /\ UNCHANGED store
       ELSE
         \E left \in {StoreCascade(store, id)} :
           /\ store' = left
           /\ upload' = [upload EXCEPT
                           !.deletes[i] = DeleteResponse(table, 200, id, Len(store) - Len(left))]

DeleteProductWithoutCascade(id) ==
  /\ domain = "upload"
  /\ Len(upload.deletes) < MaxDeletes
  /\ UNCHANGED <<inputs, scripts, store, req, pc, retrieval, modState, embState, events, status, body,
                 written, ended, logged>>
  /\ upload' = [upload EXCEPT
                  !.products = @ \ {id},
                  !.deletes = Append(@, DeleteResponse("products", 200, id, 0))]

\* The removal of a product (DELETE /api/products/<id>, requested by the
\* admin page): the product row is deleted and its sections with it.
DeleteProduct(id) ==
  /\ domain = "upload"
  /\ Len(upload.deletes) < MaxDeletes
  /\ UNCHANGED <<inputs, scripts, store, req, pc, retrieval, modState, embState, events, status, body,
                 written, ended, logged>>
  /\ \E left \in {ProductCascade(upload.product_sections, id)} :
       upload' = [upload EXCEPT
                    !.products = @ \ {id},
                    !.product_sections = left,
                    !.deletes = Append(@, DeleteResponse("products", 200, id,
                                                         Len(upload.product_sections) - Len(left)))]

\* ------------------------------------------------- suggested questions
\* The handler of suggested-questions.ts ("products") and the handler with a
\* type parameter and the hasDocuments field ("typed"). suggest.documents is
\* the number of names in the documents table (SELECT DISTINCT name, read by
\* the catch block), suggest.withSections the number of names the JOIN of the
\* documents with their sections returns (the names of documents that have a
\* section, read by the main path), suggest.titled whether a section title
\* names pricing, benefits or features.
SuggestVariants == {"products", "typed"}

\* generateFallbackQuestions: two questions on the first document, one on the
\* first two, one on the title found, then the generic ones up to six
FallbackCount(names, titled) ==
  LET specific == (IF names > 0 THEN 2 ELSE 0) + (IF names > 1 THEN 1 ELSE 0)
                  + (IF titled THEN 1 ELSE 0)
  IN Min(6, specific + Min(3, 6 - specific))

\* fewer than 3 questions are filled up from the fallback; at most 6 are kept
EnsureCount(q, names, titled) ==
  Min(6, IF q < 3 THEN Min(6, q + FallbackCount(names, titled)) ELSE q)

\* res.status(200).json({ questions, hasDocuments })
SendQuestions(count, hasDocuments, log) ==
  /\ suggest' = [suggest EXCEPT !.questions = count, !.hasDocuments = hasDocuments]
  /\ Respond(200, "questions", log)

\* the answer when the tables hold no document
NoDocuments(log) ==
  IF suggest.variant = "products" THEN SendQuestions(3, "none", log)
  ELSE SendQuestions(0, "false", log)

\* the catch block: the error is logged, getDbPool() is called again and the
\* SELECT of the names is issued; when getDbPool() throws, the error leaves
\* the handler and the framework answers 500 or the request is left unanswered
SuggestCatch(err, db) ==
  IF db
  THEN /\ logged' = Append(logged, err.message)
       /\ pc' = "fallback"
       /\ UNCHANGED <<suggest, status, body, written, ended>>
  ELSE /\ logged' = Append(logged, err.message)
       /\ pc' = "done"
       /\ \E answered \in BOOLEAN :
            IF answered
            THEN status' = 500 /\ body' = "Internal Server Error" /\ ended' = ended + 1
            ELSE UNCHANGED <<status, body, ended>>
       /\ UNCHANGED <<suggest, written>>

\* entry of the handler up to the await of the SELECT of names and titles
SuggestEntry(key, db, method) ==
  /\ domain = "suggest"
  /\ pc = "start"
  /\ req' = [key |-> key, db |-> db, method |-> method, data |-> FALSE, prompt |-> ""]
  /\ UNCHANGED <<inputs, store, upload, indexer, dbPool, retrieval, modState, embState, events>>
  /\ IF ~key THEN
       SuggestCatch(ApplicationError("Missing environment variable OPENAI_KEY"), db)
     ELSE IF method # "GET" THEN
       Respond(405, "Method not allowed", << >>) /\ UNCHANGED suggest
     ELSE IF ~db THEN
       SuggestCatch(OtherError("Missing database environment variables"), db)
     ELSE
       /\ pc' = "select"
       /\ UNCHANGED <<suggest, status, body, written, ended, logged>>

\* the SELECT returns (or rejects): no rows, or the generation call is made
NamesSelected(ok) ==
  /\ domain = "suggest"
  /\ pc = "select"
  /\ UNCHANGED <<inputs, store, upload, indexer, dbPool, retrieval, modState, embState, req>>
  /\ IF ~ok THEN SuggestCatch(OtherError("query failed"), req.db) /\ UNCHANGED events
     ELSE IF suggest.withSections = 0 THEN NoDocuments(<< >>) /\ UNCHANGED events
     ELSE /\ events' = Append(events, "generation")
          /\ pc' = "generate"
          /\ UNCHANGED <<suggest, status, body, written, ended, logged>>

\* createChatCompletion returns: rejected, another status than 200, no
\* content, content that is not a JSON array of strings, or an array of
\* parsed strings
QuestionsGenerated(outcome, parsed) ==
  /\ domain = "suggest"
  /\ pc = "generate"
  /\ UNCHANGED <<inputs, store, upload, indexer, dbPool, retrieval, modState, embState, req, events>>
  /\ IF outcome = "failed" THEN SuggestCatch(OtherError("request failed"), req.db)
     ELSE IF outcome = "notok" THEN
       SuggestCatch(ApplicationError("Failed to generate suggested questions"), req.db)
     ELSE IF outcome = "empty" THEN SuggestCatch(ApplicationError("No content generated"), req.db)
     ELSE IF outcome = "unparsable" THEN
       SendQuestions(EnsureCount(FallbackCount(suggest.withSections, suggest.titled),
                                 suggest.withSections, suggest.titled),
                     IF suggest.variant = "products" THEN "none" ELSE "true", << >>)
     ELSE
       SendQuestions(EnsureCount(parsed, suggest.withSections, suggest.titled),
                     IF suggest.variant = "products" THEN "none" ELSE "true", << >>)

\* the SELECT of the catch block returns (or rejects)
FallbackSelected(ok) ==
  /\ domain = "suggest"
  /\ pc = "fallback"
  /\ UNCHANGED <<inputs, store, upload, indexer, dbPool, retrieval, modState, embState, req, events>>
  /\ IF ~ok THEN
       IF suggest.variant = "products" THEN SendQuestions(3, "none", << >>)
       ELSE SendQuestions(0, "false", << >>)
     ELSE IF suggest.variant = "products" THEN
       SendQuestions(FallbackCount(suggest.documents, FALSE), "none", << >>)
     ELSE IF suggest.documents = 0 THEN SendQuestions(0, "false", << >>)
     ELSE SendQuestions(FallbackCount(suggest.documents, FALSE), "true", << >>)

\* ------------------------------------------------------ connection pool
\* Calls of getDbPool and closeDbPool made by the code that runs between the
\* awaits of the process. pools[i] is the i-th pool created: whether end()
\* has resolved and how often end() was called; closing holds, for every
\* closeDbPool call waiting for pool.end(), the pool it ended.
poolRest ==
  <<domain, query, store, req, pc, modState, embState, events, retrieval, status, body,
    written, ended, logged, upload, indexer, suggest>>

\* getDbPool(): returns the pool if the variable holds one, else throws on a
\* missing configuration, else creates a pool and stores it
GetDbPool(configured) ==
  /\ domain = "pool"
  /\ dbPool.calls < MaxCalls
  /\ UNCHANGED poolRest
  /\ IF dbPool.pool # 0 THEN
       dbPool' = [dbPool EXCEPT !.calls = @ + 1, !.returned = dbPool.pool,
                                !.returnedEnding = dbPool.pools[dbPool.pool].ends > 0]
     ELSE IF ~configured THEN
       dbPool' = [dbPool EXCEPT !.calls = @ + 1, !.returned = 0, !.returnedEnding = FALSE]
     ELSE
       dbPool' = [dbPool EXCEPT !.calls = @ + 1,
                                !.pools = Append(@, [state |-> "live", ends |-> 0]),
                                !.pool = Len(dbPool.pools) + 1,
                                !.returned = Len(dbPool.pools) + 1,
                                !.returnedEnding = FALSE]

\* closeDbPool() up to its await: pool.end() is called if the variable holds
\* a pool
CloseDbPool ==
  /\ domain = "pool"
  /\ dbPool.calls < MaxCalls
  /\ UNCHANGED poolRest
  /\ IF dbPool.pool # 0 THEN
       dbPool' = [dbPool EXCEPT !.calls = @ + 1,
                                !.pools[dbPool.pool].ends = @ + 1,
                                !.pools[dbPool.pool].state = IF @ = "live" THEN "ending" ELSE @,
                                !.closing = Append(@, dbPool.pool)]
     ELSE
       dbPool' = [dbPool EXCEPT !.calls = @ + 1]

\* pool.end() of the i-th waiting closeDbPool call settles: when resolved
\* the variable is set to null, when rejected closeDbPool rejects
PoolEnded(i, ok) ==
  /\ domain = "pool"
  /\ i \in DOMAIN dbPool.closing
  /\ UNCHANGED poolRest
  /\ \E rest \in {SubSeq(dbPool.closing, 1, i - 1)
                   \o SubSeq(dbPool.closing, i + 1, Len(dbPool.closing))} :
       IF ok
       THEN dbPool' = [dbPool EXCEPT !.pools[dbPool.closing[i]].state = "ended",
                                     !.pool = 0,
                                     !.closing = rest]
       ELSE dbPool' = [dbPool EXCEPT !.closing = rest]

\* ---------------------------------------------------- embeddings script
\* One page of the pages directory. Its content is "A" or "B"; the checksum
\* of a content is the content's name, and load() splits it into sections.
Contents == {"A", "B"}

SectionCount(content) == IF content = "A" THEN MaxSections ELSE 1

\* embeddingSource.load(): the sections of the content
Sections(content) == [i \in 1..SectionCount(content) |-> [of |-> content, n |-> i]]

\* everything the script leaves alone
handlers ==
  <<domain, query, store, req, pc, modState, embState, events, retrieval, status, body,
    written, ended, upload, dbPool, suggest>>

\* the console.error calls of the catch block of the page: the message that
\* the page failed to store, then the error itself
PageCatch(err) == <<"Page failed to store properly", err>>

\* the catch block of the page: logged, the loop goes on with the next page
PageFailed(err) ==
  /\ indexer' = [indexer EXCEPT !.ipc = "idle"]
  /\ logged' = logged \o PageCatch(err)

\* the catch block of a section logs and rethrows to the catch block of the page
PageSectionFailed(err) ==
  /\ indexer' = [indexer EXCEPT !.ipc = "idle"]
  /\ logged' = logged \o <<"Failed to generate embeddings">> \o PageCatch(err)

\* the loop of the sections: call the embedding service for section i, or,
\* after the last one, issue the UPDATE that sets the checksum
NextSection(ix, i) ==
  IF i <= Len(Sections(ix.content))
  THEN [ix EXCEPT !.index = i, !.ipc = "embed"]
  ELSE [ix EXCEPT !.index = i, !.ipc = "checksum"]

\* a run of the script reaches the page: load() reads the content, the SELECT
\* of the page is issued (or load() throws)
RunStarts(content, refresh, loaded) ==
  /\ domain = "index"
  /\ indexer.ipc = "idle"
  /\ indexer.runs < MaxRuns
  /\ UNCHANGED handlers
  /\ IF ~loaded
     THEN /\ indexer' = [indexer EXCEPT !.runs = @ + 1, !.content = content,
                                        !.refresh = refresh]
          /\ logged' = logged \o PageCatch("load failed")
     ELSE /\ indexer' = [indexer EXCEPT !.runs = @ + 1, !.content = content,
                                        !.refresh = refresh, !.ipc = "select"]
          /\ UNCHANGED logged

\* the SELECT of the page returns: skip the page when its checksum is that
\* of the content, else DELETE its sections if it exists, else INSERT it
PageSelected(ok) ==
  /\ indexer.ipc = "select"
  /\ UNCHANGED handlers
  /\ IF ~ok THEN PageFailed("query failed")
     ELSE IF ~indexer.refresh /\ indexer.exists /\ indexer.checksum = indexer.content THEN
       indexer' = [indexer EXCEPT !.ipc = "idle"] /\ UNCHANGED logged
     ELSE IF indexer.exists THEN
       indexer' = [indexer EXCEPT !.ipc = "delete"] /\ UNCHANGED logged
     ELSE
       indexer' = [indexer EXCEPT !.ipc = "insert_page"] /\ UNCHANGED logged

\* DELETE FROM nods_page_section WHERE page_id = ? returns; the UPDATE that
\* clears the checksum is issued
SectionsDeleted(ok) ==
  /\ indexer.ipc = "delete"
  /\ UNCHANGED handlers
  /\ IF ~ok THEN PageFailed("query failed")
     ELSE /\ indexer' = [indexer EXCEPT !.page_section = << >>, !.ipc = "clear"]
          /\ UNCHANGED logged

\* UPDATE nods_page SET checksum = NULL ... returns
ChecksumCleared(ok) ==
  /\ indexer.ipc = "clear"
  /\ UNCHANGED handlers
  /\ IF ~ok THEN PageFailed("query failed")
     ELSE /\ indexer' = NextSection([indexer EXCEPT !.checksum = "NULL"], 1)
          /\ UNCHANGED logged

\* INSERT INTO nods_page (path, checksum, ...) VALUES (?, NULL, ...) returns
PageInserted(ok) ==
  /\ indexer.ipc = "insert_page"
  /\ UNCHANGED handlers
  /\ IF ~ok THEN PageFailed("query failed")
     ELSE /\ indexer' = NextSection([indexer EXCEPT !.exists = TRUE, !.checksum = "NULL"], 1)
          /\ UNCHANGED logged

\* createEmbedding for the current section returns 200, returns another
\* status, or rejects; on 200 the INSERT of the section is issued
PageSectionEmbedded(outcome) ==
  /\ indexer.ipc = "embed"
  /\ UNCHANGED handlers
  /\ IF outcome # "ok"
     THEN PageSectionFailed(IF outcome = "failed" THEN "fetch failed" ELSE "embedding response")
     ELSE /\ indexer' = [indexer EXCEPT !.ipc = "insert_section"]
          /\ UNCHANGED logged

\* INSERT INTO nods_page_section ... returns
PageSectionInserted(ok) ==
  /\ indexer.ipc = "insert_section"
  /\ UNCHANGED handlers
  /\ IF ~ok
     THEN PageSectionFailed("query failed")
     ELSE /\ indexer' =
               NextSection([indexer EXCEPT
                              !.page_section = Append(@, Sections(indexer.content)[indexer.index])],
                           indexer.index + 1)
          /\ UNCHANGED logged

\* UPDATE nods_page SET checksum = ? WHERE id = ? returns
ChecksumSet(ok) ==
  /\ indexer.ipc = "checksum"
  /\ UNCHANGED handlers
  /\ IF ~ok THEN PageFailed("query failed")
     ELSE /\ indexer' = [indexer EXCEPT !.checksum = indexer.content, !.ipc = "idle"]
          /\ UNCHANGED logged

Next ==
  \/ \E key \in BOOLEAN, db \in BOOLEAN, method \in {"POST", "GET"}, data \in BOOLEAN,
        blank \in BOOLEAN :
       HandlerEntry(key, db, method, data, blank)
  \/ \E outcome \in {"ok", "flagged", "failed"} : ModerationCompletes(outcome)
  \/ \E outcome \in {"ok", "bad", "failed", "garbled"} : EmbeddingCompletes(outcome)
  \/ Join
  \/ \E ok \in BOOLEAN : VectorSearchReturns(ok)
  \/ \E ok \in BOOLEAN : KeywordSearchReturns(ok)
  \/ \E outcome \in {"ok", "notok", "failed"} : GenerationReturns(outcome)
  \/ StreamChunk
  \/ StreamDone
  \/ StreamError

Spec == Init /\ [][Next]_vars

\* The same handler when every call that was made returns and the event loop
\* runs every continuation that is ready: a step that stays possible is taken.
SpecLive == Spec /\ WF_vars(Next)

\* A retrieval request followed from entry while delete requests for the
\* documents of its store are served
InitStore ==
  /\ Init
  /\ query \in {<< >>, <<"license">>}

NextStore ==
  \/ Next
  \/ \E db \in BOOLEAN, id \in DeleteIds, method \in {"DELETE", "GET"} :
       DeleteDocument(db, id, method)
  \/ \E db \in BOOLEAN, id \in DeleteIds, method \in {"DELETE", "GET"} :
       DeleteGtmDocument(db, id, method)
  \/ \E i \in 1..MaxDeletes, ok \in BOOLEAN : DeleteReturns(i, ok)

SpecStore == InitStore /\ [][NextStore]_vars

\* The retrieval part of a request on larger stores: the handler has passed
\* validation, moderation and embedding and awaits the vector query.
InitRetrieval ==
  /\ \/ /\ domain = "legal"
        /\ query \in Queries \ {<< >>}
        /\ store \in Stores
     \/ /\ domain \in Domains \ {"legal"}
        /\ query = <<"license">>
        /\ store \in PlainStores
  /\ req = [key |-> TRUE, db |-> TRUE, method |-> "POST", data |-> TRUE, prompt |-> "text"]
  /\ pc = "vector"
  /\ modState = "ok"
  /\ embState = "ok"
  /\ events = <<"moderation_start", "embedding_start", "moderation_done", "embedding_done",
                "vector_query">>
  /\ vectorSections = << >>
  /\ keywordBoostedSections = << >>
  /\ sections = << >>
  /\ tokenCount = 0
  /\ contextText = << >>
  /\ status = 0
  /\ body = "none"
  /\ written = << >>
  /\ ended = 0
  /\ logged = << >>
  /\ upload = NoUpload
  /\ indexer = NoIndexer
  /\ dbPool = NoPool
  /\ suggest = NoSuggest

NextRetrieval ==
  \/ \E ok \in BOOLEAN : VectorSearchReturns(ok)
  \/ \E ok \in BOOLEAN : KeywordSearchReturns(ok)
  \/ GenerationReturns("ok")
  \/ StreamDone

SpecRetrieval == InitRetrieval /\ [][NextRetrieval]_vars

\* The search stage on the rows and words above
InitSearch ==
  /\ \/ /\ domain = "legal"
        /\ query \in SearchQueries
        /\ store \in SearchStores
     \/ /\ domain = "legal"
        /\ query \in FullQueries
        /\ store \in FullStores
     \/ /\ domain \in Domains \ {"legal"}
        /\ query = <<"license">>
        /\ store \in SearchStores \cup FullStores
  /\ req = [key |-> TRUE, db |-> TRUE, method |-> "POST", data |-> TRUE, prompt |-> "text"]
  /\ pc = "vector"
  /\ modState = "ok"
  /\ embState = "ok"
  /\ events = <<"moderation_start", "embedding_start", "moderation_done", "embedding_done",
                "vector_query">>
  /\ vectorSections = << >>
  /\ keywordBoostedSections = << >>
  /\ sections = << >>
  /\ tokenCount = 0
  /\ contextText = << >>
  /\ status = 0
  /\ body = "none"
  /\ written = << >>
  /\ ended = 0
  /\ logged = << >>
  /\ upload = NoUpload
  /\ indexer = NoIndexer
  /\ dbPool = NoPool
  /\ suggest = NoSuggest

SpecSearch == InitSearch /\ [][NextRetrieval]_vars

\* the tables before the request: the product tables empty, the legal
\* tables holding a document with a section
EarlierSections == <<[legal_id |-> 1]>>

UploadTables ==
  {[NoUpload EXCEPT !.legal_documents = {1}, !.legal_sections = EarlierSections]}

\* One upload request, and delete requests, on the tables
InitUpload ==
  /\ domain = "upload"
  /\ query = << >>
  /\ store = << >>
  /\ req = NoReq
  /\ pc = "start"
  /\ modState = "idle"
  /\ embState = "idle"
  /\ events = << >>
  /\ vectorSections = << >>
  /\ keywordBoostedSections = << >>
  /\ sections = << >>
  /\ tokenCount = 0
  /\ contextText = << >>
  /\ status = 0
  /\ body = "none"
  /\ written = << >>
  /\ ended = 0
  /\ logged = << >>
  /\ upload \in UploadTables
  /\ indexer = NoIndexer
  /\ dbPool = NoPool
  /\ suggest = NoSuggest

NextUpload ==
  \/ \E key \in BOOLEAN, db \in BOOLEAN, method \in {"POST", "GET"}, form \in UploadForms,
        name \in BOOLEAN, content \in UploadContents \cup {<< >>} :
       UploadEntry(key, db, method, form, name, content)
  \/ \E outcome \in {"ok", "failed", "exceeded"} : ProductInserted(outcome)
  \/ \E outcome \in {"ok", "bad", "failed", "exceeded"} : SectionEmbedded(outcome)
  \/ \E outcome \in {"ok", "failed", "exceeded"} : SectionInserted(outcome)
  \/ FormParsed
  \/ PdfExtracted
  \/ \E db \in BOOLEAN, id \in DeleteIds, method \in {"DELETE", "GET"} :
       DeleteDocument(db, id, method)
  \/ \E i \in 1..MaxDeletes, ok \in BOOLEAN : DeleteReturns(i, ok)
  \/ \E id \in {1} : DeleteProduct(id)

SpecUpload == InitUpload /\ [][NextUpload]_vars

\* Runs of the embeddings script over one page
InitIndex ==
  /\ domain = "index"
  /\ query = << >>
  /\ store = << >>
  /\ req = NoReq
  /\ pc = "start"
  /\ modState = "idle"
  /\ embState = "idle"
  /\ events = << >>
  /\ vectorSections = << >>
  /\ keywordBoostedSections = << >>
  /\ sections = << >>
  /\ tokenCount = 0
  /\ contextText = << >>
  /\ status = 0
  /\ body = "none"
  /\ written = << >>
  /\ ended = 0
  /\ logged = << >>
  /\ upload = NoUpload
  /\ indexer = NoIndexer
  /\ dbPool = NoPool
  /\ suggest = NoSuggest

NextIndex ==
  \/ \E content \in Contents, refresh \in BOOLEAN, loaded \in BOOLEAN :
       RunStarts(content, refresh, loaded)
  \/ \E ok \in BOOLEAN : PageSelected(ok)
  \/ \E ok \in BOOLEAN : SectionsDeleted(ok)
  \/ \E ok \in BOOLEAN : ChecksumCleared(ok)
  \/ \E ok \in BOOLEAN : PageInserted(ok)
  \/ \E outcome \in {"ok", "bad", "failed"} : PageSectionEmbedded(outcome)
  \/ \E ok \in BOOLEAN : PageSectionInserted(ok)
  \/ \E ok \in BOOLEAN : ChecksumSet(ok)

SpecIndex == InitIndex /\ [][NextIndex]_vars

\* One request to a suggested-questions handler
InitSuggest ==
  /\ domain = "suggest"
  /\ query = << >>
  /\ store = << >>
  /\ req = NoReq
  /\ pc = "start"
  /\ modState = "idle"
  /\ embState = "idle"
  /\ events = << >>
  /\ vectorSections = << >>
  /\ keywordBoostedSections = << >>
  /\ sections = << >>
  /\ tokenCount = 0
  /\ contextText = << >>
  /\ status = 0
  /\ body = "none"
  /\ written = << >>
  /\ ended = 0
  /\ logged = << >>
  /\ upload = NoUpload
  /\ indexer = NoIndexer
  /\ dbPool = NoPool
  /\ \E variant \in SuggestVariants, documents \in 0..MaxDocuments, titled \in BOOLEAN :
     \E withSections \in 0..documents :
       suggest = [NoSuggest EXCEPT !.variant = variant, !.documents = documents,
                                   !.withSections = withSections,
                                   !.titled = titled /\ withSections > 0]

NextSuggest ==
  \/ \E key \in BOOLEAN, db \in BOOLEAN, method \in {"GET", "POST"} : SuggestEntry(key, db, method)
  \/ \E ok \in BOOLEAN : NamesSelected(ok)
  \/ \E outcome \in {"ok", "notok", "failed", "empty", "unparsable"}, parsed \in 0..MaxGenerated :
       QuestionsGenerated(outcome, parsed)
  \/ \E ok \in BOOLEAN : FallbackSelected(ok)

SpecSuggest == InitSuggest /\ [][NextSuggest]_vars

\* Calls of getDbPool and closeDbPool in one process
InitPool ==
  /\ domain = "pool"
  /\ query = << >>
  /\ store = << >>
  /\ req = NoReq
  /\ pc = "start"
  /\ modState = "idle"
  /\ embState = "idle"
  /\ events = << >>
  /\ vectorSections = << >>
  /\ keywordBoostedSections = << >>
  /\ sections = << >>
  /\ tokenCount = 0
  /\ contextText = << >>
  /\ status = 0
  /\ body = "none"
  /\ written = << >>
  /\ ended = 0
  /\ logged = << >>
  /\ upload = NoUpload
  /\ indexer = NoIndexer
  /\ dbPool = NoPool
  /\ suggest = NoSuggest

NextPool ==
  \/ \E configured \in BOOLEAN : GetDbPool(configured)
  \/ CloseDbPool
  \/ \E i \in 1..MaxCalls, ok \in BOOLEAN : PoolEnded(i, ok)

SpecPool == InitPool /\ [][NextPool]_vars

TypeOK ==
  /\ pc \in {"start", "calls", "vector", "keyword", "generate", "stream", "done",
            "parse", "pdf", "product", "embedding", "section", "select", "fallback", "generate"}
  /\ status \in {0, 200, 400, 405, 500}
  /\ upload.index <= Len(upload.sections)
  /\ ended \in 0..1

\* ================================================================ claims
Issued(call) == call \in Range(events)

\* the packing loop has run on the ranked list
Packed == Issued("generation")

ContextIds == [i \in DOMAIN contextText |-> contextText[i].content]

Trailers == {i \in DOMAIN written : written[i].kind = "sources"}

SourceIds(i) == [j \in DOMAIN written[i].sources |-> written[i].sources[j].id]

RECURSIVE SumTokens(_)
SumTokens(ids) == IF ids = << >> THEN 0 ELSE store[Head(ids)].tok + SumTokens(Tail(ids))

PrefixTokens(rows, k) == SumTokens([i \in 1..k |-> rows[i].id])

\* C1: the sources sent in the __SOURCES__ trailer are exactly the passages
\* whose blocks the packing loop appended to contextText.
C1_SourcesAreContext ==
  \A i \in Trailers : SourceIds(i) = ContextIds

\* C2: the cumulative token count of the passages reported as sources never
\* exceeds the token budget of the handler.
C2_SourcesWithinBudget ==
  \A i \in Trailers : SumTokens(SourceIds(i)) <= TokenBudget(domain)

\* the length of the longest prefix of the ranked list whose running token
\* total stays strictly below the budget
FittingPrefix ==
  LET total == [k \in DOMAIN sections |-> PrefixTokens(sections, k)]
  IN CHOOSE n \in 0..Len(sections) :
       /\ \A k \in 1..n : total[k] < TokenBudget(domain)
       /\ n < Len(sections) => total[n + 1] >= TokenBudget(domain)

\* C3: contextText holds one whole block per passage of exactly the longest
\* prefix of the ranked list whose running token total stays strictly below
\* the budget, in rank order; the candidate that reaches the budget and every
\* candidate after it are left out.
C3_ContextIsFittingPrefix ==
  Packed =>
    /\ ContextIds = [i \in 1..FittingPrefix |-> sections[i].id]
    /\ \A i \in DOMAIN contextText :
         contextText[i].document_name = sections[i].document_name

\* a candidate was cut by the budget although a candidate ranked after the
\* cut one would still have fitted
C3_Witness ==
  /\ Packed
  /\ Len(contextText) < Len(sections)
  /\ \E j \in (Len(contextText) + 2)..Len(sections) :
       PrefixTokens(sections, Len(contextText)) + sections[j].tok < TokenBudget(domain)

StoreQueries == {"vector_query", "keyword_query"}

\* C4: a flagged moderation result ends the request with the 400 rejection
\* and no store query or generation call, whatever the embedding call did.
C4_FlaggedIsRejected ==
  (pc = "done" /\ modState = "flagged") =>
    /\ status = 400
    /\ body = "Flagged content"
    /\ ~ \E c \in StoreQueries \cup {"generation"} : Issued(c)

\* C5 as stated: an embedding response with a non-success status, or a failed
\* store query, always ends in a 500 with no generation call, and no store
\* query follows an embedding failure.
C5_FailureIsServerError ==
  (pc = "done" /\ (embState = "bad" \/ Issued("query_failed"))) =>
    /\ status = 500
    /\ ~ Issued("generation")
    /\ embState = "bad" => ~ \E c \in StoreQueries : Issued(c)

\* C5, amended: as above, except that the response is the 400 rejection when
\* the moderation check flagged the query; then, too, no store query and no
\* generation call is made and nothing is streamed.
C5_FailureIsFatal ==
  (pc = "done" /\ (embState = "bad" \/ Issued("query_failed"))) =>
    /\ status = IF modState = "flagged" THEN 400 ELSE 500
    /\ status = 500 => body = "There was an error processing your request"
    /\ ~ Issued("generation")
    /\ written = << >>
    /\ contextText = << >>
    /\ embState = "bad" => ~ \E c \in StoreQueries : Issued(c)

C5_Witness ==
  /\ pc = "done"
  /\ embState = "bad"
  /\ modState = "ok"
  /\ status = 500

Before(a, b) ==
  \E i, j \in DOMAIN events : i < j /\ events[i] = a /\ events[j] = b

\* C6: the moderation call and the embedding call are started together, and
\* every store query is issued after both have completed.
C6_QueriesAfterJoin ==
  /\ Len(events) >= 1 => SubSeq(events, 1, 2) = <<"moderation_start", "embedding_start">>
  /\ \A c \in StoreQueries :
       Issued(c) => /\ Before("moderation_done", c)
                    /\ Before("embedding_done", c)
                    /\ modState = "ok"
                    /\ embState = "ok"

\* the embedding call completed before the moderation call, and the vector
\* query was issued after both
C6_Witness ==
  /\ Before("embedding_done", "moderation_done")
  /\ Before("moderation_done", "vector_query")

Merged == domain = "legal" /\ Packed

\* C7: the merged list has no two candidates with the same passage id, and a
\* passage found by both searches is kept as its vector candidate.
C7_MergeDeduplicates ==
  Merged =>
    LET vectorIds == Ids(vectorSections)
        vectorRows == Range(vectorSections)
    IN /\ \A i, j \in DOMAIN sections : sections[i].id = sections[j].id => i = j
       /\ \A i \in DOMAIN sections :
            sections[i].id \in vectorIds => sections[i] \in vectorRows

\* a passage returned by both searches is in the merged list with a vector
\* similarity that differs from the keyword rows' 0.85
C7_Witness ==
  /\ Merged
  /\ \E i \in DOMAIN sections :
       /\ sections[i].id \in Ids(vectorSections) \cap Ids(keywordBoostedSections)
       /\ sections[i].similarity # KeywordSimilarity

\* is the candidate at position i of the merged list keyword-only, that is,
\* not among the vector rows
KeywordOnly == [i \in DOMAIN sections |-> sections[i].id \notin Ids(vectorSections)]

\* did the keyword search return the candidate at position i
KeywordMatched == [i \in DOMAIN sections |-> sections[i].id \in Ids(keywordBoostedSections)]

Position(rows, id) == CHOOSE i \in DOMAIN rows : rows[i].id = id

\* the keyword-only candidates keep the order of the keyword rows
KeywordOrderKept ==
  LET only == KeywordOnly
      at == [i \in DOMAIN sections |->
               IF only[i] THEN Position(keywordBoostedSections, sections[i].id) ELSE 0]
  IN \A i, j \in DOMAIN sections : (i < j /\ only[i] /\ only[j]) => at[i] < at[j]

\* C8 as stated: keyword-only candidates first, in keyword-row order, then
\* the vector candidates in non-increasing similarity.
C8_KeywordOnlyFirst ==
  Merged =>
    LET only == KeywordOnly
    IN /\ KeywordOrderKept
       /\ \A i, j \in DOMAIN sections :
            i < j => /\ ~ (~ only[i] /\ only[j])
                     /\ (~ only[i] /\ ~ only[j])
                          => sections[i].similarity >= sections[j].similarity

\* C8, amended: the candidates whose id the keyword search returned (the
\* keyword-only rows and the vector candidates it also matched) come first,
\* in non-increasing similarity, keyword-only rows in keyword-row order; the
\* other vector candidates follow in non-increasing similarity.
C8_KeywordMatchedFirst ==
  Merged =>
    LET matched == KeywordMatched
    IN /\ KeywordOrderKept
       /\ \A i, j \in DOMAIN sections :
            i < j => /\ matched[j] => matched[i]
                     /\ (matched[i] <=> matched[j])
                          => sections[i].similarity >= sections[j].similarity

\* a vector candidate that the keyword search also matched is ranked before
\* a keyword-only candidate
C8_Witness ==
  /\ Merged
  /\ \E i, j \in DOMAIN sections :
       /\ i < j
       /\ ~ KeywordOnly[i]
       /\ KeywordMatched[i]
       /\ KeywordOnly[j]

\* the query string contains "bsl" in some case
MentionsBsl(ws) == \E i \in DOMAIN ws : ToLowerCase(ws[i]) \in {"bsl", "bsl?"}

\* C9: for a query containing "BSL" and two passages of raw similarity 0.80,
\* the one of "Business Source License" is ranked strictly before the one of
\* "Subscription Agreement" in the list handed to the packing loop.
C9_BslRanksFirst ==
  (Merged /\ MentionsBsl(query)) =>
    \A a, b \in DOMAIN store :
      ( /\ store[a].document_name = "Business Source License"
        /\ store[b].document_name = "Subscription Agreement"
        /\ store[a].sim = 8000 /\ store[b].sim = 8000
        /\ store[a].len >= MinContentLength /\ store[b].len >= MinContentLength )
      => /\ store[a].id \in Ids(sections)
         /\ store[b].id \in Ids(sections)
         /\ Position(sections, store[a].id) < Position(sections, store[b].id)

\* passages of at least 50 characters with a curated keyword in content or
\* section title
KeywordMatches ==
  LET keywords == Range(AllKeywords(query))
  IN {i \in DOMAIN store :
        store[i].len >= MinContentLength /\ store[i].phrases \cap keywords # {}}

\* those of them below the vector threshold, which the keyword search is
\* meant to rescue
Rescuable == {i \in KeywordMatches : store[i].sim < MatchThreshold("legal")}

Rescued(i) ==
  /\ store[i].id \notin Ids(vectorSections)
  /\ \E k \in DOMAIN sections :
       sections[k].id = store[i].id /\ sections[k].similarity = KeywordSimilarity

\* C10 as stated: for a query that triggers the keyword search, every passage
\* of at least 50 characters that contains a curated keyword and is below the
\* 0.70 threshold is absent from the vector rows and in the merged list with
\* similarity 0.85, whatever the store holds.
C10_EveryMatchRescued ==
  (Merged /\ KeywordTrigger(query)) => \A i \in Rescuable : Rescued(i)

\* C10, amended: the same, provided at most 10 passages of at least 50
\* characters match a curated keyword in content or section title.
C10_MatchesWithinLimitRescued ==
  (Merged /\ KeywordTrigger(query) /\ Cardinality(KeywordMatches) <= KeywordLimit)
    => \A i \in Rescuable : Rescued(i)

C10_Witness ==
  /\ Merged
  /\ KeywordTrigger(query)
  /\ Cardinality(KeywordMatches) <= KeywordLimit
  /\ \E i \in Rescuable : "must promptly notify" \in store[i].phrases /\ Rescued(i)
  /\ vectorSections # << >>

\* the raw similarity of a candidate: 1 - distance of its passage's embedding
Raw(section) == store[section.id].sim

\* positions in the alias list of the aliases the document name contains
AliasHits(name) ==
  LET aliases == DocumentKeywords(query)
  IN {k \in DOMAIN aliases : NameIncludes(name, aliases[k])}

\* the factor, in hundredths, that the first contained alias fixes
FirstAliasFactor(name) ==
  LET aliases == DocumentKeywords(query)
      hits == AliasHits(name)
      first == CHOOSE k \in hits : \A h \in hits : k <= h
  IN IF hits = {} THEN 100
     ELSE IF Len(aliases[first]) > 10 THEN 125
     ELSE IF Len(aliases[first]) > 5 THEN 120
     ELSE 115

Clamped(x) == IF x > One THEN One ELSE x

\* C11: each vector candidate of the legal handler carries min(1.0, raw
\* similarity times f), f being fixed by the first alias, in keyword-list
\* order, that its document name contains (1.25 for more than 10 characters,
\* 1.20 for more than 5, else 1.15); with no contained alias it keeps its raw
\* similarity.
C11_BoostIsFirstAlias ==
  domain = "legal" =>
    \A i \in DOMAIN vectorSections :
      LET section == vectorSections[i]
      IN section.similarity
           = Clamped((Raw(section) * FirstAliasFactor(section.document_name)) \div 100)

\* a candidate whose name holds a 3-character alias before a longer one is
\* boosted by 1.15 and not clamped, another is boosted by 1.20 or 1.25, and
\* a third is not boosted
C11_Witness ==
  /\ domain = "legal"
  /\ \E i \in DOMAIN vectorSections :
       LET section == vectorSections[i]
           aliases == DocumentKeywords(query)
       IN /\ \E h, k \in AliasHits(section.document_name) :
                h < k /\ Len(aliases[h]) <= 5 /\ Len(aliases[k]) > 10
          /\ section.similarity = (Raw(section) * 115) \div 100
          /\ section.similarity < One
  /\ \E i \in DOMAIN vectorSections :
       /\ AliasHits(vectorSections[i].document_name) = {}
       /\ vectorSections[i].similarity = Raw(vectorSections[i])

InUnitInterval(rows) ==
  \A i \in DOMAIN rows : 0 <= rows[i].similarity /\ rows[i].similarity <= One

\* C12: every similarity a candidate carries (vector rows, boosted rows,
\* keyword rows, merged list, reported sources) lies in [0, 1]; a boosted
\* similarity is at most 1.0 even when raw times factor exceeds it, and every
\* keyword row carries exactly 0.85.
C12_SimilaritiesInUnitInterval ==
  /\ InUnitInterval(vectorSections)
  /\ InUnitInterval(keywordBoostedSections)
  /\ InUnitInterval(sections)
  /\ \A i \in Trailers : InUnitInterval(written[i].sources)
  /\ \A i \in DOMAIN keywordBoostedSections :
       keywordBoostedSections[i].similarity = KeywordSimilarity

\* the sources were sent; a candidate whose raw similarity times its factor
\* exceeds 1.0 carries 1.0, and a passage whose embedding points away from
\* the query vector was injected by the keyword search with 0.85
C12_Witness ==
  /\ Trailers # {}
  /\ \E i \in DOMAIN sections :
       /\ (Raw(sections[i]) * FirstAliasFactor(sections[i].document_name)) \div 100 > One
       /\ sections[i].similarity = One
  /\ \E i \in DOMAIN sections :
       /\ Raw(sections[i]) < 0
       /\ sections[i].similarity = KeywordSimilarity

\* the vector query has returned its rows
VectorReturned == pc # "vector" /\ ~ Issued("query_failed")

\* C13: every candidate the vector search returned has raw similarity
\* strictly above the handler's threshold (0.78 product, 0.70 legal and GTM)
\* and content of at least 50 characters; a passage whose similarity equals
\* the threshold is not returned.
C13_StrictlyAboveThreshold ==
  LET threshold == IF domain = "product" THEN 7800 ELSE 7000
  IN /\ \A i \in DOMAIN vectorSections :
          /\ Raw(vectorSections[i]) > threshold
          /\ store[vectorSections[i].id].len >= 50
          /\ domain # "legal" => vectorSections[i].similarity = Raw(vectorSections[i])
     /\ \A i \in DOMAIN store :
          store[i].sim = threshold => store[i].id \notin Ids(vectorSections)

\* the store holds a passage exactly at the threshold, a passage above the
\* threshold that is too short, and a passage the search returned
C13_Witness ==
  /\ VectorReturned
  /\ \E i \in DOMAIN store :
       store[i].len >= 50 /\ store[i].sim = MatchThreshold(domain)
  /\ \E i \in DOMAIN store :
       store[i].len < 50 /\ store[i].sim > MatchThreshold(domain)
  /\ vectorSections # << >>

\* passages the vector search may return
Eligible == {i \in DOMAIN store : store[i].len >= 50 /\ store[i].sim > MatchThreshold(domain)}

\* C14: the vector search returns at most maxResults candidates (10 product,
\* 15 legal and GTM), the nearest eligible passages, in non-increasing
\* similarity; without keyword augmentation an eligible passage whose
\* embedding equals the query vector is carried with similarity 1.0 and no
\* candidate of another similarity is ranked before it.
C14_NearestFirstWithinLimit ==
  /\ Len(vectorSections) <= (IF domain = "product" THEN 10 ELSE 15)
  /\ \A i, j \in DOMAIN vectorSections :
       i < j => /\ vectorSections[i].similarity >= vectorSections[j].similarity
                /\ (domain # "legal" \/ DocumentKeywords(query) = << >>)
                     => Raw(vectorSections[i]) >= Raw(vectorSections[j])
  /\ VectorReturned =>
       \A e \in Eligible :
         store[e].id \notin Ids(vectorSections) =>
           \A i \in DOMAIN vectorSections : Raw(vectorSections[i]) >= store[e].sim
  /\ (Packed /\ ~ Issued("keyword_query")) =>
       \A e \in Eligible :
         store[e].sim = One =>
           \E k \in DOMAIN sections :
             /\ sections[k].id = store[e].id
             /\ \A i \in 1..k : sections[i].similarity = One

\* more passages are eligible than the search returns, the limit is reached,
\* and the passage identical to the query is the first candidate
C14_Witness ==
  /\ Packed
  /\ ~ Issued("keyword_query")
  /\ Cardinality(Eligible) > MatchCount(domain)
  /\ Len(vectorSections) = MatchCount(domain)
  /\ \E e \in Eligible : store[e].sim = One /\ sections[1].id = store[e].id
  /\ \E i \in DOMAIN sections : sections[i].similarity < One

\* the candidates that entered the merge: the vector rows and the keyword
\* rows of passages the vector search did not return
Combined ==
  {vectorSections[i] : i \in DOMAIN vectorSections}
    \cup {keywordBoostedSections[i] : i \in {k \in DOMAIN keywordBoostedSections :
              keywordBoostedSections[k].id \notin Ids(vectorSections)}}

\* a ranks no lower than b in the merged order
RanksNoLower(a, b) ==
  LET matched(s) == s.id \in Ids(keywordBoostedSections)
  IN /\ matched(b) => matched(a)
     /\ (matched(a) <=> matched(b)) => a.similarity >= b.similarity

\* C15: the legal handler's merged list has at most 20 candidates, at most
\* 15 when the keyword search returned no rows, and the candidates that the
\* truncation dropped rank no higher than any candidate it kept.
C15_MergedListIsTopPrefix ==
  Merged =>
    /\ Len(sections) <= 20
    /\ keywordBoostedSections = << >> => Len(sections) <= 15
    /\ Range(sections) \subseteq Combined
    /\ Len(sections) = (IF Cardinality(Combined) <= 20 THEN Cardinality(Combined) ELSE 20)
    /\ \A kept \in Range(sections) :
         \A dropped \in Combined \ Range(sections) : RanksNoLower(kept, dropped)

\* more than 20 candidates entered the merge and a vector candidate was dropped
C15_Witness ==
  /\ Merged
  /\ Cardinality(Combined) > 20
  /\ Len(sections) = 20
  /\ \E dropped \in Combined \ Range(sections) : dropped.id \in Ids(vectorSections)
  /\ \E i \in DOMAIN sections : sections[i].id \notin Ids(vectorSections)

\* the searches are over, none failed, and no passage was eligible for the
\* vector search
SearchedNoneEligible ==
  /\ Issued("vector_query")
  /\ pc \notin {"vector", "keyword"}
  /\ ~ Issued("query_failed")
  /\ Eligible = {}

\* the vector search returned an empty list and the request goes on: the
\* generation call made, and no error response other than the one for a
\* failed generation call
GoesOnWithoutError ==
  /\ vectorSections = << >>
  /\ Issued("generation")
  /\ status \in {0, 200}
       \/ (status = 500 /\ logged \in {<<"fetch failed">>, <<"Failed to generate completion">>})

\* no block was packed and no source is reported
NoContext ==
  /\ contextText = << >>
  /\ \A i \in Trailers : written[i].sources = << >>

\* the request goes on as a request without context
GoesOnWithoutContext == GoesOnWithoutError /\ NoContext

\* C16 as stated: when no passage is eligible, in any handler, contextText is
\* empty, generation runs, the sources are empty and no error is answered.
C16_NoneEligibleIsNoContext ==
  SearchedNoneEligible => GoesOnWithoutContext

\* C16, amended: when no passage is eligible, in any handler, the vector
\* search returns an empty list, generation runs and no error is answered;
\* when the keyword search returned no row either, contextText and the
\* sources are empty.
C16_NoCandidateIsNoContext ==
  SearchedNoneEligible =>
    /\ GoesOnWithoutError
    /\ keywordBoostedSections = << >> => NoContext

\* the legal handler answered from a store whose only passage is too short
\* for both searches: the keyword search ran, the answer was streamed and the
\* trailer reports no source
C16_Witness ==
  /\ SearchedNoneEligible
  /\ store # << >>
  /\ Issued("keyword_query")
  /\ keywordBoostedSections = << >>
  /\ status = 200
  /\ \E i \in Trailers : written[i].sources = << >>

\* the request was ended by a UserError thrown in the handler
RaisedUserError ==
  \/ /\ domain \in Domains
     /\ req.key /\ req.db /\ req.method = "POST"
     /\ ~ req.data \/ req.prompt = "absent"
  \/ /\ domain \in Domains
     /\ modState = "flagged" /\ embState \in {"ok", "bad", "garbled"}
  \/ /\ domain = "upload"
     /\ req.key /\ req.method = "POST"
     /\ \/ upload.form \in {"too_large", "malformed", "nothing_provided"}
        \/ upload.form \in {"json", "multipart", "pdf"}
             /\ (~ upload.name \/ upload.content = << >>)

\* the request was ended by an ApplicationError thrown in the handler
RaisedApplicationError ==
  \/ ~ req.key
  \/ domain \in Domains /\ ~ req.db
  \/ domain \in Domains /\ modState = "ok" /\ embState = "bad"

\* C17: a UserError is answered with 400 and the error's message and is not
\* logged; an ApplicationError is logged and answered with 500 and the fixed
\* opaque message, in the retrieval handlers and in the upload handler.
C17_ErrorsAnsweredByClass ==
  pc = "done" =>
    /\ RaisedUserError =>
         /\ status = 400
         /\ logged = << >>
         /\ body \in {"Missing request data", "Missing query in request data", "Flagged content",
                      "File too large. Maximum size is 50MB.", "Error parsing form",
                      "No file or content provided", "Missing required fields: name and content"}
    /\ RaisedApplicationError =>
         /\ status = 500
         /\ logged # << >>
         /\ body = "There was an error processing your request"

\* the request passed the checks of key, configuration, method and body
PassedConfiguration == req.key /\ req.db /\ req.method = "POST" /\ req.data

\* C18: a request whose query is empty after trimming (missing, "", or white
\* space only) is answered 400 before any external call, and the moderation
\* and embedding services are called with a non-empty string only.
C18_EmptyQueryRejected ==
  /\ (pc = "done" /\ PassedConfiguration /\ query = << >>) =>
       /\ status = 400
       /\ body = "Missing query in request data"
       /\ events = << >>
  /\ (Issued("moderation_start") \/ Issued("embedding_start")) => query # << >>

\* the query is tagged by a classifier: licensing or compliance phrasing,
\* reporting-obligation phrasing, how to inform a client, or a request to
\* draft an email
TaggedByClassifier ==
  \/ IsLicensingQuery(query)
  \/ IsReportingObligationQuery(query)
  \/ IsHowToInformQuery(query)
  \/ IsGenerateEmailQuery(query)

\* C19: in the legal handler the keyword query is sent exactly for the
\* queries a classifier tags (licensing/compliance, reporting obligation,
\* request to draft a communication); for every other query the final list
\* is the boosted vector list as it is.
C19_KeywordSearchFollowsIntent ==
  (domain = "legal" /\ VectorReturned) =>
    /\ Issued("keyword_query") <=> TaggedByClassifier
    /\ (Packed /\ ~ Issued("keyword_query")) => sections = vectorSections

\* a step of the retrieval request: its position, its calls or its response
\* change
RequestStep ==
  <<req, pc, modState, embState, events, retrieval, status, body, written, ended, logged>>'
    # <<req, pc, modState, embState, events, retrieval, status, body, written, ended, logged>>

\* C20: no step of a retrieval request, whether it succeeds, is rejected or
\* fails, changes the rows of the store; the store changes only when the
\* DELETE of a delete request served meanwhile returns.
C20_StoreUnchanged == [][RequestStep => store' = store]_vars

\* a request ran both queries and was answered while a delete request removed
\* the passage it had read from the store
C20_Witness ==
  /\ vectorSections # << >>
  /\ store = << >>
  /\ \E i \in DOMAIN upload.deletes :
       upload.deletes[i].status = 200 /\ upload.deletes[i].removed > 0
  /\ Issued("vector_query")
  /\ Issued("keyword_query")
  /\ pc = "done"
  /\ status = 200

\* C21: after any interleaving of the steps of an upload with deletes, every
\* stored section row references a stored document row: the delete removes
\* the sections of the document and none is inserted for it afterwards.
C21_SectionsReferenceDocuments ==
  /\ \A i \in DOMAIN upload.product_sections :
       upload.product_sections[i].product_id \in upload.products
  /\ \A i \in DOMAIN upload.legal_sections :
       upload.legal_sections[i].legal_id \in upload.legal_documents

\* the product being uploaded was deleted after its first section had been
\* stored: the section went with it, and the INSERT of the next section,
\* issued by the upload still in progress, was rejected
C21_Witness ==
  /\ upload.productId # 0
  /\ upload.productId \notin upload.products
  /\ \E i \in DOMAIN upload.deletes :
       /\ upload.deletes[i].table = "products"
       /\ upload.deletes[i].deleted = upload.productId
       /\ upload.deletes[i].removed > 0
  /\ upload.product_sections = << >>
  /\ pc = "done"
  /\ status = 500
  /\ body = "a foreign key constraint fails"

\* the section rows stored for the product of this upload
WrittenByUpload ==
  {i \in DOMAIN upload.product_sections :
     upload.productId # 0 /\ upload.product_sections[i].product_id = upload.productId}

\* C22: every section row written by the upload handler has content longer
\* than the 50-character minimum, the embedding computed from that content,
\* and the id of the product row inserted by the same upload.
C22_RowsAreWellFormed ==
  /\ \A i \in WrittenByUpload :
       /\ upload.product_sections[i].content.len > MinContentLength
       /\ upload.product_sections[i].embedding = upload.product_sections[i].content.at
  /\ \A i \in DOMAIN upload.product_sections : i \in WrittenByUpload

\* C23: between the runs of the script, the checksum stored for a page is
\* not NULL only if the sections stored for the page are the sections of the
\* content with that checksum, each once and no other.
C23_ChecksumMeansStored ==
  (indexer.ipc = "idle" /\ indexer.checksum # "NULL")
    => indexer.page_section = Sections(indexer.checksum)

\* the first check, in the order of the claim, that the request fails
FirstFailingCheck ==
  IF ~ req.key THEN "key"
  ELSE IF ~ req.db THEN "configuration"
  ELSE IF req.method # "POST" THEN "method"
  ELSE IF ~ req.data \/ req.prompt = "absent" THEN "query"
  ELSE IF modState = "flagged" THEN "moderation"
  ELSE IF embState = "bad" THEN "embedding"
  ELSE "none"

StatusOfCheck(check) ==
  CASE check = "key" -> 500
    [] check = "configuration" -> 500
    [] check = "method" -> 405
    [] check = "query" -> 400
    [] check = "moderation" -> 400
    [] check = "embedding" -> 500

\* C24: the checks are made in the order key, database configuration, method,
\* query, moderation result, embedding status; the first one that fails
\* alone determines the response, and no external call is made unless the
\* first four have passed.
C24_FirstFailingCheckDecides ==
  /\ (pc = "done" /\ domain \in Domains /\ FirstFailingCheck # "none") =>
        /\ status = StatusOfCheck(FirstFailingCheck)
        /\ FirstFailingCheck = "moderation" => body = "Flagged content"
  /\ (domain \in Domains /\ FirstFailingCheck \in {"key", "configuration", "method", "query"}) =>
        events = << >>

StreamFailed == "Stream error" \in Range(logged)

\* C25: when reading or forwarding the answer stream fails after the
\* generation call succeeded, the response carries status 500.
C25_StreamFailureIsServerError ==
  (pc = "done" /\ domain \in Domains /\ StreamFailed) => status = 500

\* the response is one JSON error with no streamed bytes, or a streamed body
JsonResponse == body # "stream" /\ status \in {400, 405, 500} /\ written = << >>

StreamedResponse == body = "stream" /\ status = 200

ResponseFinishedOnce ==
  /\ ended <= 1
  /\ pc # "done" => ended = 0
  /\ pc = "done" => (ended = 1 /\ (JsonResponse \/ StreamedResponse))
  /\ written # << >> => body = "stream"

\* C27: the response of a retrieval request is finished exactly once, as one
\* JSON error (400, 405, 500) with nothing streamed or as a streamed body
\* ended once; no JSON error follows streamed bytes; and when the calls made
\* return, the handler reaches one of the two.
C27_RespondsExactlyOnce == [] ResponseFinishedOnce /\ <> (pc = "done")

\* a stream that failed after a chunk was forwarded: ended once, no JSON
C27_Witness ==
  /\ pc = "done"
  /\ StreamFailed
  /\ written # << >>
  /\ ended = 1
  /\ body = "stream"

\* C28: the chunks are written in the order read, the sources trailer is
\* written at most once, after the last chunk and as the last write before
\* the response ends, and not at all when the stream fails.
C28_TrailerLastAndOnce ==
  /\ \A i \in DOMAIN written : written[i].kind = "chunk" => written[i].n = i
  /\ Cardinality(Trailers) <= 1
  /\ \A i \in Trailers : i = Len(written) /\ pc = "done" /\ ended = 1
  /\ (pc = "done" /\ body = "stream" /\ ~ StreamFailed) => Trailers # {}
  /\ StreamFailed => Trailers = {}

\* all chunks forwarded and then the trailer
C28_Witness ==
  /\ pc = "done"
  /\ Len(written) = MaxChunks + 1
  /\ Trailers = {MaxChunks + 1}
  /\ written[1].kind = "chunk"
  /\ ended = 1

\* C26: a GET request to the suggested-questions handler is answered 200
\* with a questions array whatever fails inside (key, database
\* configuration, database query, generation); when the answer says that
\* documents are present it has 3 to 6 questions.
C26_AlwaysAnswersQuestions ==
  /\ (domain = "suggest" /\ pc = "done" /\ req.method = "GET") =>
        status = 200 /\ body = "questions" /\ suggest.questions >= 0
  /\ suggest.hasDocuments = "true" => suggest.questions \in 3..6

\* C29: every row the keyword search returned, at most 10, is in the final
\* candidate list of the legal handler; the truncation to matchCount + 5
\* removes none of them.
C29_KeywordRowsSurviveTruncation ==
  (Merged /\ keywordBoostedSections # << >>) =>
    /\ Len(keywordBoostedSections) <= KeywordLimit
    /\ Ids(keywordBoostedSections) \subseteq Ids(sections)

\* ten keyword rows entered a merge of more than 20 candidates; the list was
\* cut to 20 and holds all ten
C29_Witness ==
  /\ Merged
  /\ Len(keywordBoostedSections) = KeywordLimit
  /\ Cardinality(Combined) > MatchCount("legal") + Overflow
  /\ Len(sections) = MatchCount("legal") + Overflow
  /\ Ids(keywordBoostedSections) \subseteq Ids(sections)

\* the pools whose end() has not resolved
LivePools == {i \in DOMAIN dbPool.pools : dbPool.pools[i].state # "ended"}

\* C30: under every interleaving of getDbPool and closeDbPool calls at most
\* one pool is live, end() is called at most once on each pool, and getDbPool
\* never returns a pool whose end() has been started.
C30_OnePoolEndedOnce ==
  /\ Cardinality(LivePools) <= 1
  /\ \A i \in DOMAIN dbPool.pools : dbPool.pools[i].ends <= 1
  /\ ~ dbPool.returnedEnding

====
